---------------------------- MODULE Spec2Model ----------------------------
(***************************************************************************)
(* A model of BD-Core's data sanitisation pipeline (core/cleaner.py) and   *)
(* of the column mapper of the plot plugins (plugins/base.py).             *)
(*                                                                         *)
(* Strings are sequences of one-character strings, so that trimming, case  *)
(* folding, regular-expression matching and number parsing are computed    *)
(* character by character, the way the Python code computes them.          *)
(* A cell is a record [k, m, e, s]:                                        *)
(*   k = "nan"   the missing value (pandas NaN)                            *)
(*   k = "num"   the finite number m * 10^e (m carries no trailing zero)   *)
(*   k = "inf"   an infinite float of sign m                               *)
(*   k = "log"   the logarithm, in base s, of m * 10^e when that is no     *)
(*               integer (kept symbolic)                                   *)
(*   k = "text"  the string s                                              *)
(***************************************************************************)
EXTENDS Integers, Sequences, FiniteSets, TLC

VARIABLES
    cell, cmodel, cellOut, cpc,          \* one cell through a per-cell function
    hdr, hdrNorm, hdrNorm2, hdrKey, hpc, \* one header through the normalizers
    raw, config, \* the table and the configuration given to DataCleaner
    caller,      \* the caller's table object, as the caller sees it now
    shared,      \* whether self.df is the caller's table object
    df,          \* self.df, then the plugin's self.df
    pre,         \* the table as the stage that ran last received it
    wide,        \* whether _auto_melt_strategy took its reshape branch
    pc,          \* the stage of the pipeline to run next
    wiz,         \* the locals of AnalysisWizard.run and the prompt it is at
    backing,     \* the user has decided to answer BACK from now on
    hm,          \* the locals and the config of _handle_heatmap_subtype
    mn,          \* the locals of main and the calls it has made
    sel,         \* the locals and the config of run_step_2 for a Heatmap
    column,      \* one column of a table on its way to the classification
    leaning      \* what is_numeric_leaning answered for it

cellVars == <<cell, cmodel, cellOut, cpc>>
hdrVars == <<hdr, hdrNorm, hdrNorm2, hdrKey, hpc>>
pipeVars == <<raw, config, caller, shared, df, pre, wide, pc>>
uiVars == <<wiz, backing, hm, mn, sel>>
colVars == <<column, leaning>>
vars == <<cellVars, hdrVars, pipeVars, uiVars, colVars>>

-----------------------------------------------------------------------------
(* Bounds of the model *)

\* longest enumerated cell string given to clean_cell
MaxLen == 4
\* longest enumerated cell string given to math_op
MaxMathLen == 3
\* longest enumerated header string
MaxHdrLen == 4
\* most rows of an enumerated table
MaxRows == 2
MaxWizardCalls == 3
MaxColLen == 4

-----------------------------------------------------------------------------
(* Characters and strings *)

Digits == <<"0", "1", "2", "3", "4", "5", "6", "7", "8", "9">>
UpperChars ==
    <<"A", "B", "C", "D", "E", "F", "G", "H", "I", "J", "K", "L", "M",
      "N", "O", "P", "Q", "R", "S", "T", "U", "V", "W", "X", "Y", "Z">>
LowerChars ==
    <<"a", "b", "c", "d", "e", "f", "g", "h", "i", "j", "k", "l", "m",
      "n", "o", "p", "q", "r", "s", "t", "u", "v", "w", "x", "y", "z">>

IsDigit(c) == \E i \in 1..10 : Digits[i] = c
DigitVal(c) == (CHOOSE i \in 1..10 : Digits[i] = c) - 1

\* str.isspace / the regular expression class \s, on the characters modelled
IsSpace(c) == c \in {" ", "\t", "\n"}

\* str.lower on one character
LowerChar(c) ==
    IF \E i \in 1..26 : UpperChars[i] = c
    THEN LowerChars[CHOOSE i \in 1..26 : UpperChars[i] = c]
    ELSE c

\* str.lower
Lower(s) == [i \in 1..Len(s) |-> LowerChar(s[i])]

RECURSIVE LStrip(_)
LStrip(s) == IF s # <<>> /\ IsSpace(Head(s)) THEN LStrip(Tail(s)) ELSE s

RECURSIVE RStrip(_)
RStrip(s) ==
    IF s # <<>> /\ IsSpace(s[Len(s)])
    THEN RStrip(SubSeq(s, 1, Len(s) - 1))
    ELSE s

\* str.strip
Strip(s) == RStrip(LStrip(s))

\* all strings over alphabet A of length at most n
Strings(A, n) == UNION {[1..k -> A] : k \in 0..n}

\* the number of consecutive digits of s from position i on
RECURSIVE DigitRun(_, _)
DigitRun(s, i) ==
    IF i <= Len(s) /\ IsDigit(s[i]) THEN 1 + DigitRun(s, i + 1) ELSE 0

\* the value of the digit string s[i..j]
RECURSIVE DigitsValue(_, _, _)
DigitsValue(s, i, j) ==
    IF j < i THEN 0 ELSE 10 * DigitsValue(s, i, j - 1) + DigitVal(s[j])

-----------------------------------------------------------------------------
(* Cells *)

Missing == [k |-> "nan", m |-> 0, e |-> 0, s |-> <<>>]
Text(s) == [k |-> "text", m |-> 0, e |-> 0, s |-> s]
Inf(sg) == [k |-> "inf", m |-> sg, e |-> 0, s |-> <<>>]

\* m * 10^e with the trailing zeros of m moved into e
RECURSIVE Num(_, _)
Num(m, e) ==
    IF m = 0 THEN [k |-> "num", m |-> 0, e |-> 0, s |-> <<>>]
    ELSE IF m % 10 = 0 THEN Num(m \div 10, e + 1)
    ELSE [k |-> "num", m |-> m, e |-> e, s |-> <<>>]

IsMissing(c) == c.k = "nan"
IsText(c) == c.k = "text"
IsNumber(c) == c.k \in {"num", "inf", "log"}

\* the number of decimal digits of the natural number n
RECURSIVE NDigits(_)
NDigits(n) == IF n < 10 THEN 1 ELSE 1 + NDigits(n \div 10)

Abs(n) == IF n < 0 THEN -n ELSE n

-----------------------------------------------------------------------------
(* Python's float(str) and str(float) *)

\* PEP 515: an underscore is accepted only between two digits
UnderscoresOk(s) ==
    \A i \in 1..Len(s) :
        s[i] = "_" =>
            /\ i > 1 /\ IsDigit(s[i - 1])
            /\ i < Len(s) /\ IsDigit(s[i + 1])

NotUnderscore(c) == c # "_"

\* the float denoted by mantissa digits m and decimal exponent e, with the
\* range of a float64: beyond 1e308 it is infinite, below 1e-324 it is zero
FloatOf(sg, m, e) ==
    IF m = 0 THEN Num(0, 0)
    ELSE IF NDigits(m) + e - 1 > 308 THEN Inf(sg)
    ELSE IF NDigits(m) + e - 1 < -324 THEN Num(0, 0)
    ELSE Num(sg * m, e)

\* float(t) for t already trimmed and without underscores:
\* [ok |-> whether t is a float literal, v |-> its value]
ParsePlain(t) ==
    LET signed == t # <<>> /\ t[1] \in {"+", "-"}
        sg == IF signed /\ t[1] = "-" THEN -1 ELSE 1
        p == IF signed THEN 2 ELSE 1
        word == Lower(SubSeq(t, p, Len(t)))
        da == DigitRun(t, p)
        q == p + da
        hasDot == q <= Len(t) /\ t[q] = "."
        db == IF hasDot THEN DigitRun(t, q + 1) ELSE 0
        r == q + (IF hasDot THEN 1 ELSE 0) + db
        hasExp == r <= Len(t) /\ t[r] \in {"e", "E"}
        esigned == hasExp /\ r + 1 <= Len(t) /\ t[r + 1] \in {"+", "-"}
        esg == IF esigned /\ t[r + 1] = "-" THEN -1 ELSE 1
        r2 == IF esigned THEN r + 2 ELSE r + 1
        dc == IF hasExp THEN DigitRun(t, r2) ELSE 0
        mant == SubSeq(t, p, q - 1) \o SubSeq(t, q + 1, q + db)
        ex == IF hasExp THEN esg * DigitsValue(t, r2, r2 + dc - 1) ELSE 0
        fail == [ok |-> FALSE, v |-> Missing]
    IN  IF word \in {<<"i", "n", "f">>,
                     <<"i", "n", "f", "i", "n", "i", "t", "y">>}
        THEN [ok |-> TRUE, v |-> Inf(sg)]
        ELSE IF word = <<"n", "a", "n">> THEN [ok |-> TRUE, v |-> Missing]
        ELSE IF da + db = 0 THEN fail
        ELSE IF hasExp /\ (dc = 0 \/ r2 + dc # Len(t) + 1) THEN fail
        ELSE IF ~hasExp /\ r # Len(t) + 1 THEN fail
        ELSE [ok |-> TRUE,
              v |-> FloatOf(sg, DigitsValue(mant, 1, Len(mant)), ex - db)]

\* float(s) on a string: surrounding whitespace is ignored, underscores may
\* group digits; ok = FALSE stands for ValueError
\* (CHOOSE r \in {f(t) : t \in {e}} : TRUE is f(e), with e evaluated once)
ParseFloat(s) ==
    CHOOSE r \in {IF UnderscoresOk(t)
                  THEN ParsePlain(SelectSeq(t, NotUnderscore))
                  ELSE [ok |-> FALSE, v |-> Missing] : t \in {Strip(s)}} : TRUE

\* the decimal digits of the natural number n
RECURSIVE IntToStr(_)
IntToStr(n) ==
    IF n < 10 THEN <<Digits[n + 1]>>
    ELSE IntToStr(n \div 10) \o <<Digits[(n % 10) + 1]>>

Zeros(n) == [i \in 1..n |-> "0"]

\* repr of a finite float m * 10^e: positional when 1e-4 <= |x| < 1e16,
\* scientific otherwise
FloatRepr(m, e) ==
    LET ds == IntToStr(Abs(m))
        L == Len(ds)
        decpt == L + e
        sign == IF m < 0 THEN <<"-">> ELSE <<>>
        ex == decpt - 1
        exs == IntToStr(Abs(ex))
        body ==
            IF decpt <= -4 \/ decpt > 16
            THEN <<ds[1]>>
                 \o (IF L > 1 THEN <<".">> \o SubSeq(ds, 2, L) ELSE <<>>)
                 \o <<"e", IF ex < 0 THEN "-" ELSE "+">>
                 \o (IF Len(exs) < 2 THEN <<"0">> ELSE <<>>) \o exs
            ELSE IF decpt <= 0 THEN <<"0", ".">> \o Zeros(-decpt) \o ds
            ELSE IF decpt >= L THEN ds \o Zeros(decpt - L) \o <<".", "0">>
            ELSE SubSeq(ds, 1, decpt) \o <<".">> \o SubSeq(ds, decpt + 1, L)
    IN  sign \o body

\* str(x) of a cell that is a string, NaN, or a float with a decimal value
Str(x) ==
    CASE x.k = "text" -> x.s
      [] x.k = "nan" -> <<"n", "a", "n">>
      [] x.k = "inf" ->
            (IF x.m < 0 THEN <<"-">> ELSE <<>>) \o <<"i", "n", "f">>
      [] x.k = "num" -> FloatRepr(x.m, x.e)

-----------------------------------------------------------------------------
(* Logarithms *)

RECURSIVE Pow(_, _)
Pow(b, n) == IF n = 0 THEN 1 ELSE b * Pow(b, n - 1)

\* k with b^k = n when n >= 1 is a power of b, and -1 otherwise
RECURSIVE ExactLog(_, _)
ExactLog(b, n) ==
    IF n = 1 THEN 0
    ELSE IF n % b # 0 THEN -1
    ELSE LET k == ExactLog(b, n \div b) IN IF k < 0 THEN -1 ELSE k + 1

LOG2 == <<"l", "o", "g", "2">>
LOG10 == <<"l", "o", "g", "1", "0">>
LN == <<"l", "n">>
LINEAR == <<"l", "i", "n", "e", "a", "r">>

\* the logarithm in base b (2 or 10) of the positive number m * 10^e: the
\* integer it is when m * 10^e is a power of b, symbolic otherwise
LogBase(name, b, m, e) ==
    LET sym == [k |-> "log", m |-> m, e |-> e, s |-> name]
    IN  IF b = 10 /\ m = 1 THEN Num(e, 0)
        ELSE IF e > 6 \/ e < -6 \/ m > 1000 THEN sym
        ELSE IF e >= 0
        THEN LET k == ExactLog(b, m * Pow(10, e))
             IN  IF k < 0 THEN sym ELSE Num(k, 0)
        ELSE IF Pow(10, -e) % m # 0 THEN sym
        ELSE LET k == ExactLog(b, Pow(10, -e) \div m)
             IN  IF k < 0 THEN sym ELSE Num(-k, 0)

\* np.log(val) for val > 0
LogNat(m, e) ==
    IF m = 1 /\ e = 0 THEN Num(0, 0)
    ELSE [k |-> "log", m |-> m, e |-> e, s |-> LN]

-----------------------------------------------------------------------------
(* ValueSanitizer: DataCleaner._sanitize_values.clean_cell *)

\* the not-detected pattern without its (?i) flag
NDMatchCaseSensitive(s) ==
    s \in { <<"n", "d">>, <<"n", ".", "d">>, <<"n", "d", ".">>,
            <<"n", ".", "d", ".">> }

\* re.match(r'(?i)^n\.?d\.?$', s): n, an optional period, d, an optional
\* period, then the end of the string (or the newline that ends it)
NDMatch(s) ==
    LET AtEnd(i) == i = Len(s) + 1 \/ (i = Len(s) /\ s[i] = "\n")
        AfterD(i) == AtEnd(i) \/ (i <= Len(s) /\ s[i] = "." /\ AtEnd(i + 1))
        AtD(i) == i <= Len(s) /\ s[i] \in {"d", "D"} /\ AfterD(i + 1)
    IN  /\ Len(s) >= 1
        /\ s[1] \in {"n", "N"}
        /\ (AtD(2) \/ (Len(s) >= 2 /\ s[2] = "." /\ AtD(3)))

\* num_pattern = ^([-+]?\d*\.?\d+([eE][-+]?\d+)?) : the length of group 1
\* of the match at the start of s, 0 when the pattern does not match
NumTokenLen(s) ==
    LET signed == s # <<>> /\ s[1] \in {"+", "-"}
        p == IF signed THEN 2 ELSE 1
        da == DigitRun(s, p)
        hasDot == p + da <= Len(s) /\ s[p + da] = "."
        db == IF hasDot THEN DigitRun(s, p + da + 1) ELSE 0
        mend == IF db >= 1 THEN p + da + db
                ELSE IF da >= 1 THEN p + da - 1
                ELSE 0
        hasExp == mend > 0 /\ mend + 1 <= Len(s) /\ s[mend + 1] \in {"e", "E"}
        esigned == hasExp /\ mend + 2 <= Len(s) /\ s[mend + 2] \in {"+", "-"}
        r2 == IF esigned THEN mend + 3 ELSE mend + 2
        dc == IF hasExp THEN DigitRun(s, r2) ELSE 0
    IN  IF mend = 0 THEN 0
        ELSE IF dc >= 1 THEN r2 + dc - 1
        ELSE mend

\* clean_cell(x)
clean_cell(x) ==
    IF IsMissing(x) THEN x
    ELSE IF x.k = "log" THEN x   \* float(repr(v)) = v for every float v
    ELSE CHOOSE r \in
            {LET direct == ParseFloat(s)
                 n == NumTokenLen(s)
                 token == ParseFloat(SubSeq(s, 1, n))
             IN  IF NDMatch(s) THEN Missing
                 ELSE IF direct.ok THEN direct.v
                 ELSE IF n > 0 THEN (IF token.ok THEN token.v ELSE Missing)
                 ELSE Text(s) : s \in {Strip(Str(x))}} : TRUE

-----------------------------------------------------------------------------
(* TransformationStage: DataCleaner._apply_transformation.math_op *)

\* float(x) of a cell: a number is itself, a string is parsed
FloatOfCell(x) ==
    IF IsText(x) THEN ParseFloat(x.s) ELSE [ok |-> TRUE, v |-> x]

\* val <= 0 (false of NaN)
NonPositive(v) ==
    \/ v.k = "num" /\ v.m <= 0
    \/ v.k = "inf" /\ v.m < 0

\* the logarithm of val > 0 (or NaN) under the model
LogOf(model, v) ==
    IF v.k # "num" THEN v      \* log(inf) = inf, log(nan) = nan
    ELSE IF model = LOG2 THEN LogBase(model, 2, v.m, v.e)
    ELSE IF model = LOG10 THEN LogBase(model, 10, v.m, v.e)
    ELSE LogNat(v.m, v.e)

\* math_op with the test val < 0 in place of val <= 0: log(0) is -inf
math_op_zero(model, x) ==
    LET f == FloatOfCell(x)
    IN  IF ~f.ok THEN x
        ELSE IF f.v = Num(0, 0) /\ model \in {LOG2, LOG10, LN}
        THEN Inf(-1)
        ELSE IF NonPositive(f.v) THEN Missing
        ELSE IF model \in {LOG2, LOG10, LN} THEN LogOf(model, f.v)
        ELSE x

\* math_op(x) under config model `model` (already lower-cased, not linear)
math_op(model, x) ==
    LET f == FloatOfCell(x)
    IN  IF ~f.ok THEN x
        ELSE IF NonPositive(f.v) THEN Missing
        ELSE IF model \in {LOG2, LOG10, LN} THEN LogOf(model, f.v)
        ELSE x

-----------------------------------------------------------------------------
(* HeaderNormalizer and the lookup of ColumnMapper *)

\* str.replace(' ', '_'): every space character becomes an underscore
ReplaceSpaces(s) == [i \in 1..Len(s) |-> IF s[i] = " " THEN "_" ELSE s[i]]

\* re.sub(r'\s+', '_', s): every maximal run of whitespace becomes one
\* underscore
RECURSIVE ReplaceWhitespaceRuns(_)
ReplaceWhitespaceRuns(s) ==
    IF s = <<>> THEN <<>>
    ELSE IF IsSpace(Head(s))
    THEN <<"_">> \o ReplaceWhitespaceRuns(LStrip(s))
    ELSE <<Head(s)>> \o ReplaceWhitespaceRuns(Tail(s))

\* _sanitize_headers with str.replace(' ', '_') in place of the \s+ pattern
sanitize_header_spaces(h) == ReplaceSpaces(Lower(Strip(h)))

\* _sanitize_headers on one column name (already a string):
\* .str.strip().str.lower().str.replace(r'\s+', '_', regex=True)
sanitize_header(h) == ReplaceWhitespaceRuns(Lower(Strip(h)))

\* no column (Python's None)
None == <<"<None>">>

InSeq(x, seq) == \E i \in 1..Len(seq) : seq[i] = x

\* find_col(target) over the column names `columns`
find_col(target, columns) ==
    LET normalized == ReplaceSpaces(Lower(Strip(target)))
    IN  IF InSeq(target, columns) THEN target
        ELSE IF InSeq(normalized, columns) THEN normalized
        ELSE None

-----------------------------------------------------------------------------
(* One cell through ValueSanitizer or TransformationStage *)

S(str) == Text(str)

\* the strings of the documentation and tests, and some Python float literals
ExampleStrings ==
    { <<"1", ".", "5", " ", "m", "g", "/", "m", "L">>,
      <<"1", ".", "2", "e", "-", "3", " ", "A", ".", "U", ".">>,
      <<"C", "o", "n", "t", "r", "o", "l">>,
      <<" ", "N", ".", "D", ".", " ">>,
      <<"n", ".", "D">>,
      <<"N", "D", "\n">>,
      <<"N", "D", "x">>,
      <<"+", "1", "0", "k", "g">>,
      <<"1", "E", "+", "2", "x">>,
      <<"n", "a", "n">>,
      <<"-", "I", "n", "f">>,
      <<"1", "_", "0", "0", "0">>,
      <<"4">>, <<"8">>, <<"-", "1">>, <<"x">>, <<"0">>, <<"0", ".", "5">> }

\* cells that are floats already (a numeric column of the loaded file)
NumberCells ==
    { Num(4, 0), Num(8, 0), Num(-1, 0), Num(0, 0), Num(15, -1), Num(12, -4),
      Num(5, -1), Num(1, -5), Num(1, 16), Num(1000, 0), Inf(1), Inf(-1) }

CleanAlphabet == {"1", "5", ".", "e", "-", "n", "d", "N", " ", "_"}
MathAlphabet == {"1", "2", "8", "0", ".", "-", "e", "x", " "}

CleanInputs ==
    {Missing} \cup NumberCells
    \cup {Text(s) : s \in Strings(CleanAlphabet, MaxLen) \cup ExampleStrings}

MathInputs ==
    {Missing} \cup NumberCells
    \cup {Text(s) : s \in Strings(MathAlphabet, MaxMathLen) \cup ExampleStrings}

\* config['model'].lower() when it is not "linear"
Models == {LOG2, LOG10, LN, <<"s", "q", "r", "t">>}

UiIdle ==
    wiz = None /\ backing = FALSE /\ hm = None /\ mn = None /\ sel = None

ColIdle == column = <<>> /\ leaning = "idle"

PipeIdle ==
    /\ raw = <<>> /\ config = None /\ df = <<>> /\ pre = <<>> /\ wide = FALSE
    /\ caller = <<>> /\ shared = FALSE
    /\ pc = "idle"

HdrIdle ==
    /\ hdr = <<>> /\ hdrNorm = <<>> /\ hdrNorm2 = <<>> /\ hdrKey = <<>>
    /\ hpc = "idle"

CellIdle == cell = Missing /\ cmodel = None /\ cellOut = Missing /\ cpc = "idle"

InitClean ==
    /\ cell \in CleanInputs
    /\ cmodel = None
    /\ cellOut = Missing
    /\ cpc = "start"
    /\ HdrIdle
    /\ PipeIdle
    /\ UiIdle
    /\ ColIdle

InitMath ==
    /\ cell \in MathInputs
    /\ cmodel = None
    /\ cellOut = Missing
    /\ cpc = "start"
    /\ HdrIdle
    /\ PipeIdle
    /\ UiIdle
    /\ ColIdle

\* self.df.map(clean_cell), on one cell
CleanCell ==
    /\ cpc = "start"
    /\ cellOut' = clean_cell(cell)
    /\ cpc' = "cleaned"
    /\ UNCHANGED <<cell, cmodel, hdrVars, pipeVars, uiVars, colVars>>

\* .map(math_op), on one cell, under a non-linear model
MathOp ==
    /\ cpc = "start"
    /\ \E mdl \in Models :
        /\ cmodel' = mdl
        /\ cellOut' = math_op(mdl, cell)
    /\ cpc' = "mathed"
    /\ UNCHANGED <<cell, hdrVars, pipeVars, uiVars, colVars>>

NextClean == CleanCell
NextMath == MathOp

SpecClean == InitClean /\ [][NextClean]_vars
SpecMath == InitMath /\ [][NextMath]_vars

-----------------------------------------------------------------------------
(* Claims about single cells *)

\* the not-detected tokens, written out: n, optional period, d, optional
\* period, in any letter case
NDTokens ==
    { <<"n", "d">>, <<"n", ".", "d">>, <<"n", "d", ".">>,
      <<"n", ".", "d", ".">> }

IsNotDetected(c) == IsText(c) /\ Lower(Strip(c.s)) \in NDTokens

\* C1: every non-missing cell whose trimmed text is a not-detected token
\* (ND, N.D., nd, n.d., N.D, nd. ...) is Missing after ValueSanitizer, never
\* the text itself and never a number.
C1_NotDetectedIsMissing ==
    (cpc = "cleaned" /\ IsNotDetected(cell)) => cellOut = Missing

\* a not-detected token in mixed case, inside whitespace, has been cleaned
C1_Witness ==
    /\ cpc = "cleaned"
    /\ cell = Text(<<" ", "N", "d", ".">>)
    /\ cellOut = Missing

AllDigits(t, i, j) == \A k \in i..j : IsDigit(t[k])

\* t[i..j] is digits with an optional decimal point: 10, 10.5, .5
IsMantissa(t, i, j) ==
    /\ i <= j
    /\ \/ AllDigits(t, i, j)
       \/ \E d \in i..(j - 1) :
            t[d] = "." /\ AllDigits(t, i, d - 1) /\ AllDigits(t, d + 1, j)

\* t[i..j] is e or E, an optional sign, digits
IsExponent(t, i, j) ==
    /\ i < j
    /\ t[i] \in {"e", "E"}
    /\ \/ AllDigits(t, i + 1, j)
       \/ t[i + 1] \in {"+", "-"} /\ i + 2 <= j /\ AllDigits(t, i + 2, j)

\* t is a numeric token: optional sign, digits with optional decimal point,
\* optional exponent
IsNumericToken(t) ==
    LET p == IF t # <<>> /\ t[1] \in {"+", "-"} THEN 2 ELSE 1
    IN  \E j \in p..Len(t) :
            /\ IsMantissa(t, p, j)
            /\ (j = Len(t) \/ IsExponent(t, j + 1, Len(t)))

\* the length of the longest numeric token that starts t (0: there is none)
LeadingTokenLen(t) ==
    LET ns == {n \in 1..Len(t) : IsNumericToken(SubSeq(t, 1, n))}
    IN  IF ns = {} THEN 0 ELSE CHOOSE n \in ns : \A k \in ns : k <= n

\* the number a numeric token denotes
TokenValue(tok) == ParsePlain(tok).v

\* C2: a cell whose trimmed text is a numeric token followed by arbitrary
\* unit text becomes exactly the number the leading token denotes; the
\* trailing text never changes the value.
C2_LeadingTokenValue ==
    (cpc = "cleaned" /\ IsText(cell) /\ ~IsNotDetected(cell)
        /\ LeadingTokenLen(Strip(cell.s)) > 0)
    => cellOut =
        TokenValue(SubSeq(Strip(cell.s), 1, LeadingTokenLen(Strip(cell.s))))

LogModels == {LOG2, LOG10, LN}

\* r is the logarithm of the positive finite number v in the model's base:
\* an integer k with base^k = v, or the symbolic logarithm of v when v is no
\* integer power of the base
IsLogarithm(model, v, r) ==
    LET Power2(k) == IF k >= 0 THEN Num(Pow(2, k), 0)
                     ELSE Num(Pow(5, -k), k)      \* 2^k = 5^-k * 10^k
        sym == [k |-> "log", m |-> v.m, e |-> v.e, s |-> model]
    IN  CASE model = LOG2 ->
                \/ /\ r.k = "num" /\ r.e \in 0..1
                   /\ r.m * Pow(10, r.e) \in -13..30
                   /\ Power2(r.m * Pow(10, r.e)) = v
                \/ r = sym /\ \A k \in -13..30 : Power2(k) # v
          [] model = LOG10 ->
                IF v.m = 1 THEN r = Num(v.e, 0) ELSE r = sym
          [] model = LN ->
                IF v = Num(1, 0) THEN r = Num(0, 0) ELSE r = sym

\* C10: under log2, log10 or ln, TransformationStage returns a cell that
\* does not parse as a float unchanged, turns a cell whose value is <= 0
\* into Missing, and turns any other cell into the logarithm of its value
\* in the model's base (the logarithm of NaN being NaN, of +inf +inf).
C10_MathOpPerCell ==
    (cpc = "mathed" /\ cmodel \in LogModels) =>
        LET f == FloatOfCell(cell)
        IN  /\ ~f.ok => cellOut = cell
            /\ (f.ok /\ NonPositive(f.v)) => cellOut = Missing
            /\ (f.ok /\ f.v.k = "num" /\ f.v.m > 0) =>
                    IsLogarithm(cmodel, f.v, cellOut)
            /\ (f.ok /\ f.v.k = "inf" /\ f.v.m > 0) => cellOut = Inf(1)
            /\ (f.ok /\ IsMissing(f.v)) => cellOut = Missing
            /\ (cmodel = LOG2 /\ cell = Num(4, 0)) => cellOut = Num(2, 0)
            /\ (cmodel = LOG2 /\ cell = Num(8, 0)) => cellOut = Num(3, 0)
            /\ (cmodel = LOG2 /\ cell = Num(-1, 0)) => cellOut = Missing
            /\ (cmodel = LOG2 /\ cell = Text(<<"x">>)) =>
                    cellOut = Text(<<"x">>)

\* the string "8" has gone through log2 and a zero through log10
C10_Witness ==
    /\ cpc = "mathed"
    /\ \/ cmodel = LOG2 /\ cell = Text(<<"8">>) /\ cellOut = Num(3, 0)
       \/ cmodel = LOG10 /\ cell = Num(0, 0) /\ cellOut = Missing

-----------------------------------------------------------------------------
(* One header through HeaderNormalizer, and one target through find_col *)

HeaderAlphabet == {"a", "B", " ", "\t", "_"}

ExampleHeaders ==
    { <<"C", "o", "n", "c", ".", " ", "(", "m", "g", "/", "m", "l", ")">>,
      <<"I", "n", "d", "e", "p", "e", "n", "d", "e", "n", "t", " ",
        "V", "a", "r", "i", "a", "b", "l", "e">>,
      <<" ", "G", "r", "o", "u", "p", "\n">>,
      <<"D", "o", "s", "e", " ", " ", "m", "g">> }

HeaderInputs == Strings(HeaderAlphabet, MaxHdrLen) \cup ExampleHeaders

InitHeader ==
    /\ hdr \in HeaderInputs
    /\ hdrNorm = None /\ hdrNorm2 = None /\ hdrKey = None
    /\ hpc = "start"
    /\ CellIdle
    /\ PipeIdle
    /\ UiIdle
    /\ ColIdle

\* _sanitize_headers on a table whose one column is named hdr
NormalizeHeader ==
    /\ hpc = "start"
    /\ hdrNorm' = sanitize_header(hdr)
    /\ hpc' = "normalized"
    /\ UNCHANGED <<hdr, hdrNorm2, hdrKey, cellVars, pipeVars, uiVars, colVars>>

\* _sanitize_headers again, on the normalized name
NormalizeAgain ==
    /\ hpc = "normalized"
    /\ hdrNorm2' = sanitize_header(hdrNorm)
    /\ hpc' = "renormalized"
    /\ UNCHANGED <<hdr, hdrNorm, hdrKey, cellVars, pipeVars, uiVars, colVars>>

\* find_col(hdr) on the table whose one column carries the normalized name
FindCol ==
    /\ hpc = "normalized"
    /\ hdrKey' = find_col(hdr, <<hdrNorm>>)
    /\ hpc' = "looked_up"
    /\ UNCHANGED <<hdr, hdrNorm, hdrNorm2, cellVars, pipeVars, uiVars, colVars>>

NextHeader == NormalizeHeader \/ NormalizeAgain \/ FindCol

SpecHeader == InitHeader /\ [][NextHeader]_vars

Count(s, P(_)) == Cardinality({i \in 1..Len(s) : P(s[i])})
IsUnderscore(c) == c = "_"

\* the whitespace runs of s: the positions where a run starts
WhitespaceRuns(s) ==
    Cardinality({i \in 1..Len(s) :
                    IsSpace(s[i]) /\ (i = 1 \/ ~IsSpace(s[i - 1]))})

\* C3: a normalized header is lowercase, has no whitespace anywhere, has
\* one underscore for each whitespace run inside the trimmed header (and
\* every other character of it, lower-cased, in order), and normalizing it
\* again returns it unchanged.
C3_NormalizeIdempotent ==
    /\ hpc \in {"normalized", "renormalized", "looked_up"} =>
        /\ hdrNorm = Lower(hdrNorm)
        /\ \A i \in 1..Len(hdrNorm) : ~IsSpace(hdrNorm[i])
        /\ Count(hdrNorm, IsUnderscore)
              = Count(hdr, IsUnderscore) + WhitespaceRuns(Strip(hdr))
        /\ SelectSeq(hdrNorm, NotUnderscore)
              = SelectSeq(Lower(SelectSeq(hdr, LAMBDA c : ~IsSpace(c))),
                          NotUnderscore)
    /\ hpc = "renormalized" => hdrNorm2 = hdrNorm

\* a header with capitals, outer whitespace and an inner whitespace run has
\* been normalized twice
C3_Witness ==
    /\ hpc = "renormalized"
    /\ hdr = <<"B", "\t", " ", "a">>
    /\ hdrNorm2 = <<"b", "_", "a">>

\* C8: the fallback key of find_col is HeaderNormalizer's transform of the
\* target, so the column whose raw header was the target and that carries
\* its normalized name is found.
C8_FindColUsesNormalizer ==
    hpc = "looked_up" => hdrKey = sanitize_header(hdr)

-----------------------------------------------------------------------------
(* Tables: a table is a sequence of columns [name, cells]; a column name   *)
(* is a string, the cells of all columns have the same length.             *)

GroupName == <<"g", "r", "o", "u", "p">>
VariableName == <<"v", "a", "r", "i", "a", "b", "l", "e">>
ValueName == <<"v", "a", "l", "u", "e">>
IndexName == <<"i", "n", "d", "e", "x">>
ScatterWord == <<"s", "c", "a", "t", "t", "e", "r">>
HeatmapWord == <<"h", "e", "a", "t", "m", "a", "p">>
XName == <<"x">>
YName == <<"y">>

Col(name, cells) == [name |-> name, cells |-> cells]
ColNames(t) == [i \in 1..Len(t) |-> t[i].name]
HasCol(t, name) == \E i \in 1..Len(t) : t[i].name = name
NRows(t) == IF t = <<>> THEN 0 ELSE Len(t[1].cells)

\* Series.map(f) / DataFrame.map(f) on one column
MapCells(col, f(_)) ==
    [col EXCEPT !.cells = [j \in 1..Len(col.cells) |-> f(col.cells[j])]]

\* df.rename(columns={old: new})
Rename(t, old, new) ==
    [i \in 1..Len(t) |-> IF t[i].name = old THEN [t[i] EXCEPT !.name = new]
                         ELSE t[i]]

\* sub in s, for Python strings
Contains(sub, s) ==
    \E i \in 0..(Len(s) - Len(sub)) : SubSeq(s, i + 1, i + Len(sub)) = sub

\* the dtype pandas infers for a column is object exactly when a string is
\* left in it (floats and NaN alone make float64)
IsObjectDtype(col) == \E j \in 1..Len(col.cells) : IsText(col.cells[j])

\* pd.to_numeric(x, errors='coerce') on one cell: a string that is no plain
\* number becomes NaN
to_numeric(x) ==
    IF IsText(x)
    THEN LET f == ParsePlain(Strip(x.s)) IN IF f.ok THEN f.v ELSE Missing
    ELSE x

NumericCount(col) ==
    Cardinality({j \in 1..Len(col.cells) : ~IsMissing(to_numeric(col.cells[j]))})

-----------------------------------------------------------------------------
(* TransformationStage and HeaderNormalizer and ValueSanitizer on a table *)

\* _apply_transformation with the whole-table map in every case
apply_transformation_global(t, cfg) ==
    LET model == Lower(cfg.model)
        Op(x) == math_op(model, x)
    IN  IF model = LINEAR THEN t
        ELSE [i \in 1..Len(t) |-> MapCells(t[i], Op)]

\* _apply_transformation with the target looked up by its normalized name
apply_transformation_normalized(t, cfg) ==
    LET model == Lower(cfg.model)
        Op(x) == math_op(model, x)
        Is(i) == sanitize_header(t[i].name) = sanitize_header(cfg.dep)
    IN  IF model = LINEAR THEN t
        ELSE IF cfg.dep # None /\ cfg.dep # <<>> /\ \E i \in 1..Len(t) : Is(i)
        THEN [i \in 1..Len(t) |-> IF Is(i) THEN MapCells(t[i], Op) ELSE t[i]]
        ELSE [i \in 1..Len(t) |-> MapCells(t[i], Op)]

\* _apply_transformation
apply_transformation(t, cfg) ==
    LET model == Lower(cfg.model)
        Op(x) == math_op(model, x)
    IN  IF model = LINEAR THEN t
        ELSE IF cfg.dep # None /\ cfg.dep # <<>> /\ HasCol(t, cfg.dep)
        THEN [i \in 1..Len(t) |->
                IF t[i].name = cfg.dep THEN MapCells(t[i], Op) ELSE t[i]]
        ELSE [i \in 1..Len(t) |-> MapCells(t[i], Op)]

\* _sanitize_headers
sanitize_headers(t) ==
    [i \in 1..Len(t) |-> [t[i] EXCEPT !.name = sanitize_header(t[i].name)]]

\* _sanitize_values
sanitize_values(t) == [i \in 1..Len(t) |-> MapCells(t[i], clean_cell)]

-----------------------------------------------------------------------------
(* ShapeResolver: DataCleaner._auto_melt_strategy *)

\* is_numeric_leaning(col)
is_numeric_leaning(col) ==
    \/ ~IsObjectDtype(col)
    \/ Len(col.cells) > 0 /\ 2 * NumericCount(col) > Len(col.cells)

\* the positions of the numeric-leaning columns and of the others, in order
NumericPositions(t) == {i \in 1..Len(t) : is_numeric_leaning(t[i])}
ObjectPositions(t) == (1..Len(t)) \ NumericPositions(t)

\* the increasing enumeration of a finite set of naturals
Sorted(set) ==
    [n \in 1..Cardinality(set) |->
        CHOOSE x \in set : Cardinality({y \in set : y < x}) = n - 1]

\* the skip of the scatter and heatmap graphs
SkipsMelt(cfg) ==
    LET graph_type == Lower(cfg.graph)
    IN  Contains(ScatterWord, graph_type) \/ Contains(HeatmapWord, graph_type)

\* is_wide without the test for a column named group
is_wide_by_count(t) ==
    Cardinality(NumericPositions(t)) > Cardinality(ObjectPositions(t)) * 2

\* is_wide
is_wide(t) ==
    /\ Cardinality(NumericPositions(t)) > Cardinality(ObjectPositions(t)) * 2
    /\ ~\E i \in ObjectPositions(t) : t[i].name = GroupName

\* self.df['index'] = self.df.index: sets the column named index, appended
\* when there is none
WithIndex(t) ==
    LET idx == Col(IndexName, [j \in 1..NRows(t) |-> Num(j - 1, 0)])
    IN  IF HasCol(t, IndexName)
        THEN [i \in 1..Len(t) |-> IF t[i].name = IndexName THEN idx ELSE t[i]]
        ELSE Append(t, idx)

\* df.melt(id_vars=ids, var_name='variable', value_name='value') for the
\* positions ids of the id columns, then the strip of 'variable'
Melt(t, ids) ==
    LET idSeq == Sorted(ids)
        valSeq == Sorted((1..Len(t)) \ ids)
        R == NRows(t)
        N == Len(valSeq)
        IdCol(i) ==
            Col(t[i].name, [k \in 1..(N * R) |-> t[i].cells[((k - 1) % R) + 1]])
        variable ==
            Col(VariableName,
                [k \in 1..(N * R) |->
                    Text(Strip(t[valSeq[((k - 1) \div R) + 1]].name))])
        value ==
            Col(ValueName,
                [k \in 1..(N * R) |->
                    t[valSeq[((k - 1) \div R) + 1]].cells[((k - 1) % R) + 1]])
    IN  [i \in 1..Len(idSeq) |-> IdCol(idSeq[i])] \o <<variable, value>>

\* melt raises ValueError when a column is already named 'value'; with an
\* id column named 'variable' the result has two columns of that name and
\* the strip of df['variable'] raises
MeltRaises(t, ids) ==
    \/ HasCol(t, ValueName)
    \/ \E i \in ids : t[i].name = VariableName

\* self.df[c] is a Series only when no other column is named c: with two
\* columns of one name it is a DataFrame, and pd.to_numeric raises TypeError
\* on it in the classification of the columns
DistinctNames(t) ==
    \A i \in 1..Len(t) : \A j \in 1..Len(t) : t[i].name = t[j].name => i = j

\* _auto_melt_strategy: [df, wide: the reshape branch was taken,
\* raised: an exception left the stage]
auto_melt_strategy(t, cfg) ==
    LET same == [df |-> t, wide |-> FALSE, raised |-> FALSE]
        error == [df |-> t, wide |-> FALSE, raised |-> TRUE]
        Reshape(t2, ids2) ==
            IF MeltRaises(t2, ids2)
            THEN [df |-> t2, wide |-> TRUE, raised |-> TRUE]
            ELSE [df |-> Melt(t2, ids2), wide |-> TRUE, raised |-> FALSE]
    IN  IF ~DistinctNames(t) THEN error
        ELSE IF SkipsMelt(cfg) THEN same
        ELSE IF ~is_wide(t) THEN same
        ELSE CHOOSE r \in
                {IF ids = {}
                 THEN Reshape(WithIndex(t),
                              {i \in 1..Len(t) + 1 :
                                  \/ i <= Len(t) /\ t[i].name = IndexName
                                  \/ i = Len(t) + 1 /\ ~HasCol(t, IndexName)})
                 ELSE Reshape(t, ids) : ids \in {ObjectPositions(t)}} : TRUE

-----------------------------------------------------------------------------
(* TypeEnforcer: DataCleaner._final_type_enforcement *)

Truthy(name) == name # None /\ name # <<>>

\* the pattern ^\s*[-+]?\.?\d of check_numeric
StartsNumeric(s) ==
    LET u == LStrip(s)
        p == IF u # <<>> /\ u[1] \in {"+", "-"} THEN 2 ELSE 1
        q == IF p <= Len(u) /\ u[p] = "." THEN p + 1 ELSE p
    IN  q <= Len(u) /\ IsDigit(u[q])

\* check_numeric(col)
check_numeric(col) ==
    LET valid == {j \in 1..Len(col.cells) : ~IsMissing(col.cells[j])}
        starts == {j \in valid :
                      \/ col.cells[j].k = "log"   \* the repr of a finite float
                      \/ col.cells[j].k # "log"
                            /\ StartsNumeric(Str(col.cells[j]))}
    IN  \/ Len(col.cells) > 0 /\ 2 * NumericCount(col) > Len(col.cells)
        \/ valid # {} /\ 2 * Cardinality(starts) > Cardinality(valid)

\* extract_num with the strict parse only
extract_num_strict(x) ==
    IF x.k = "log" THEN x
    ELSE CHOOSE r \in
            {LET direct == ParseFloat(s)
             IN  IF direct.ok THEN direct.v ELSE Missing :
                 s \in {Strip(Str(x))}} : TRUE

\* extract_num(x)
extract_num(x) ==
    IF x.k = "log" THEN x   \* float(repr(v)) = v for every float v
    ELSE CHOOSE r \in
            {LET direct == ParseFloat(s)
                 n == NumTokenLen(s)
                 token == ParseFloat(SubSeq(s, 1, n))
             IN  IF direct.ok THEN direct.v
                 ELSE IF n > 0 /\ token.ok THEN token.v
                 ELSE Missing : s \in {Strip(Str(x))}} : TRUE

\* step 1: the column 'value' is coerced with pd.to_numeric
CoerceValue(t) ==
    [i \in 1..Len(t) |->
        IF t[i].name = ValueName THEN MapCells(t[i], to_numeric) ELSE t[i]]

\* the column name the declared dependent variable resolves to
TargetClean(target) == ReplaceWhitespaceRuns(Lower(Strip(target)))

\* step 2: the dependent-variable column is forced to numbers when the
\* model is not linear or the column looks numeric
EnforceTarget(t, cfg) ==
    LET clean == TargetClean(cfg.dep)
        is_transform == cfg.model # LINEAR
    IN  IF Truthy(cfg.dep) /\ HasCol(t, clean)
        THEN [i \in 1..Len(t) |->
                IF t[i].name = clean /\ (is_transform \/ check_numeric(t[i]))
                THEN MapCells(t[i], extract_num)
                ELSE t[i]]
        ELSE t

\* target_y once step 2 is over
ResolvedTarget(t, cfg) ==
    IF Truthy(cfg.dep) /\ HasCol(t, TargetClean(cfg.dep))
    THEN TargetClean(cfg.dep)
    ELSE cfg.dep

\* step 3 without the skip of the scatter graphs
AssignGroupAlways(t, cfg, target_y) ==
    LET obj_cols == {i \in 1..Len(t) : IsObjectDtype(t[i])}
        first == CHOOSE i \in obj_cols : \A j \in obj_cols : i <= j
    IN  IF HasCol(t, GroupName) THEN t
        ELSE IF HasCol(t, VariableName) THEN Rename(t, VariableName, GroupName)
        ELSE IF obj_cols # {} /\ t[first].name # target_y
        THEN Rename(t, t[first].name, GroupName)
        ELSE t

\* step 3: a column named 'group' is looked for
AssignGroup(t, cfg, target_y) ==
    LET obj_cols == {i \in 1..Len(t) : IsObjectDtype(t[i])}
        first == CHOOSE i \in obj_cols : \A j \in obj_cols : i <= j
    IN  IF HasCol(t, GroupName) THEN t
        ELSE IF Contains(ScatterWord, Lower(cfg.graph)) THEN t
        ELSE IF HasCol(t, VariableName) THEN Rename(t, VariableName, GroupName)
        ELSE IF obj_cols # {} /\ t[first].name # target_y
        THEN Rename(t, t[first].name, GroupName)
        ELSE t

\* _final_type_enforcement
final_type_enforcement(t, cfg) ==
    CHOOSE r \in
        {AssignGroup(t2, cfg, ResolvedTarget(t, cfg)) :
            t2 \in {EnforceTarget(t1, cfg) : t1 \in {CoerceValue(t)}}} : TRUE

-----------------------------------------------------------------------------
(* ColumnMapper: BasePlugin._apply_mapping *)

\* find_col with the exact match only
MapRoleExact(t, target, role) ==
    IF Truthy(target) /\ InSeq(target, ColNames(t))
    THEN Rename(t, target, role)
    ELSE t

\* one role: the target is looked up and the column found is renamed
MapRole(t, target, role) ==
    LET found == find_col(target, ColNames(t))
    IN  IF Truthy(target) /\ Truthy(found) THEN Rename(t, found, role) ELSE t

\* _apply_mapping
apply_mapping(t, cfg) ==
    LET target_x == IF Truthy(cfg.indep) THEN cfg.indep ELSE cfg.xlabel
        target_y == IF Truthy(cfg.dep) THEN cfg.dep ELSE cfg.ylabel
    IN  CHOOSE r \in {MapRole(t1, target_y, YName) :
                        t1 \in {MapRole(t, target_x, XName)}} : TRUE

-----------------------------------------------------------------------------
(* The pipeline: DataCleaner.run, then the plugin's _apply_mapping *)

HGroup == <<"G", "r", "o", "u", "p">>
HName == <<"N", "a", "m", "e">>
HSite == <<"S", "i", "t", "e">>
HConc == <<"C", "o", "n", "c", ".", " ", "(", "m", "g", "/", "m", "l", ")">>
HGroup1 == <<"G", "r", "o", "u", "p", "1">>
HGroup2 == <<"G", "r", "o", "u", "p", "2">>
HValue == <<"V", "a", "l", "u", "e">>
HS(d) == <<"S", d>>

\* the cells of the column kinds, repeated down the rows
KindCells(kind) ==
    CASE kind = "label" ->
            <<Text(<<"C", "o", "n", "t", "r", "o", "l">>),
              Text(<<"T", "r", "e", "a", "t", "e", "d">>)>>
      [] kind = "num" -> <<Num(4, 0), Num(8, 0), Num(-1, 0)>>
      [] kind = "unit" ->
            <<Text(<<"1", ".", "5", " ", "m", "g", "/", "m", "L">>),
              Text(<<"N", "D">>),
              Text(<<"8", " ", "m", "g">>)>>
      [] kind = "half" -> <<Text(<<"x">>), Num(4, 0)>>

Kinds == {"label", "num", "unit", "half"}

KindColumn(name, kind, rows) ==
    LET cs == KindCells(kind)
    IN  Col(name, [j \in 1..rows |-> cs[((j - 1) % Len(cs)) + 1]])

\* header lists whose columns take every kind
ShortHeaders ==
    { <<HConc, HGroup>>,
      <<HGroup1, HGroup2, HValue>>,
      <<IndexName, <<"A">>, <<"B">>>>,
      <<HName, <<"A">>, <<"B">>>>,
      <<<<"A">>, <<"a">>>>,
      <<<<"X">>, <<"Y">>>> }

\* wider tables, with the kinds of their columns
WideShapes ==
    LET S5 == <<HS("1"), HS("2"), HS("3"), HS("4"), HS("5")>>
        Five(k) == <<k, k, k, k, k>>
    IN  { [h |-> <<HGroup>> \o S5, k |-> <<"label">> \o Five("num")],
          [h |-> <<HGroup>> \o S5, k |-> <<"label">> \o Five("unit")],
          [h |-> <<HName>> \o S5, k |-> <<"label">> \o Five("num")],
          [h |-> <<HName>> \o S5, k |-> <<"label">> \o Five("unit")],
          [h |-> <<VariableName, <<"A">>, <<"B">>, <<"C">>>>,
           k |-> <<"label", "num", "num", "num">>],
          [h |-> <<HName, HSite, <<"A">>, <<"B">>, <<"C">>, <<"D">>>>,
           k |-> <<"label", "label", "num", "num", "unit", "num">>],
          [h |-> <<HName, HSite>> \o S5,
           k |-> <<"label", "label">> \o Five("num")] }

Shapes ==
    WideShapes
    \cup UNION {{[h |-> hs, k |-> ks] : ks \in [1..Len(hs) -> Kinds]} :
                    hs \in ShortHeaders}

\* the tables a loader hands over
RawTables ==
    {[i \in 1..Len(sh.h) |-> KindColumn(sh.h[i], sh.k[i], rows)] :
        sh \in Shapes, rows \in 1..MaxRows}

Graphs ==
    { <<"b", "o", "x">>,
      <<"S", "c", "a", "t", "t", "e", "r">>,
      <<"h", "e", "a", "t", "m", "a", "p">>,
      <<"c", "o", "r", "r", "e", "l", "a", "t", "i", "o", "n">> }

\* the configurations tried with table t
Configs(t) ==
    LET first == t[1].name
        last == t[Len(t)].name
        roles == { <<None, None>>, <<first, last>>, <<last, first>>,
                   <<last, None>> }
        plots == {<<g, LINEAR>> : g \in Graphs}
                 \cup {<<<<"b", "o", "x">>, LOG2>>,
                       <<<<"b", "o", "x">>, <<"L", "i", "n", "e", "a", "r">>>>}
        \* the dependent variable declared in another case, or with a space
        near == {Lower(last), last \o <<" ">>}
    IN  {[graph |-> p[1], model |-> p[2], dep |-> r[1], indep |-> r[2],
          xlabel |-> None, ylabel |-> None] : p \in plots, r \in roles}
        \cup {[graph |-> <<"b", "o", "x">>, model |-> LOG2, dep |-> d,
                indep |-> None, xlabel |-> None, ylabel |-> None] : d \in near}

\* self.df = df: self.df is the caller's object
KeepsReference == FALSE

\* self.df = df.copy(): self.df is a new object
CopiesInput == TRUE

InitPipe ==
    /\ raw \in RawTables
    /\ config \in Configs(raw)
    /\ df = raw                \* self.df = df.copy()
    /\ caller = raw
    /\ shared = ~CopiesInput
    /\ pre = raw
    /\ wide = FALSE
    /\ pc = "transform"
    /\ CellIdle
    /\ HdrIdle
    /\ UiIdle
    /\ ColIdle

Idle == UNCHANGED <<raw, config, cellVars, hdrVars, uiVars, colVars>>

\* the stage assigned into the object self.df names (item assignment,
\* .columns = ..., rename(inplace=True)): a shared object changes with it
InPlace == caller' = (IF shared THEN df' ELSE caller) /\ UNCHANGED shared

\* the stage bound self.df to a new object (self.df = self.df.map(...))
Rebound == UNCHANGED caller /\ shared' = FALSE

\* _apply_transformation maps the whole table into a new object when the
\* model is not linear and the target is no column
TransformRebinds(t, cfg) ==
    Lower(cfg.model) # LINEAR /\ ~(Truthy(cfg.dep) /\ HasCol(t, cfg.dep))

ApplyTransformation ==
    /\ pc = "transform"
    /\ pre' = df
    /\ df' = apply_transformation(df, config)
    /\ IF TransformRebinds(df, config) THEN Rebound ELSE InPlace
    /\ pc' = "headers"
    /\ UNCHANGED wide
    /\ Idle

SanitizeHeaders ==
    /\ pc = "headers"
    /\ pre' = df
    /\ df' = sanitize_headers(df)
    /\ InPlace
    /\ pc' = "values"
    /\ UNCHANGED wide
    /\ Idle

SanitizeValues ==
    /\ pc = "values"
    /\ pre' = df
    /\ df' = sanitize_values(df)
    /\ Rebound
    /\ pc' = "melt"
    /\ UNCHANGED wide
    /\ Idle

AutoMelt ==
    /\ pc = "melt"
    /\ pre' = df
    /\ \E r \in {auto_melt_strategy(df, config)} :
           /\ df' = r.df
           /\ wide' = r.wide
           /\ pc' = IF r.raised THEN "raised" ELSE "types"
           \* the index column is assigned in place, melt gives a new object
           /\ caller' = (IF shared /\ r.wide /\ ObjectPositions(df) = {}
                         THEN WithIndex(df) ELSE caller)
           /\ shared' = (shared /\ (~r.wide \/ r.raised))
    /\ Idle

FinalTypeEnforcement ==
    /\ pc = "types"
    /\ pre' = df
    /\ df' = final_type_enforcement(df, config)
    /\ InPlace
    /\ pc' = "mapping"
    /\ UNCHANGED wide
    /\ Idle

\* PluginDispatcher.PLUGIN_MAP
PLUGIN_MAP ==
    [k \in { <<"b", "o", "x">>, <<"b", "o", "x", "p", "l", "o", "t">>,
             <<"s", "c", "a", "t", "t", "e", "r">>,
             <<"c", "o", "r", "r", "e", "l", "a", "t", "i", "o", "n">>,
             <<"v", "o", "l", "c", "a", "n", "o">>,
             <<"h", "e", "a", "t", "m", "a", "p">> } |->
        CASE k \in {<<"b", "o", "x">>, <<"b", "o", "x", "p", "l", "o", "t">>}
                -> "BoxplotPlugin"
          [] k \in {<<"s", "c", "a", "t", "t", "e", "r">>,
                    <<"c", "o", "r", "r", "e", "l", "a", "t", "i", "o", "n">>}
                -> "ScatterPlugin"
          [] k = <<"v", "o", "l", "c", "a", "n", "o">> -> "VolcanoPlugin"
          [] k = <<"h", "e", "a", "t", "m", "a", "p">> -> "HeatmapPlugin"]

\* the plugin class dispatch selects, "ValueError" for an unknown graph type
plugins_cls(cfg) ==
    LET graph_type == IF Lower(cfg.graph) = <<>> THEN <<"b", "o", "x">>
                      ELSE Lower(cfg.graph)
    IN  IF graph_type \in DOMAIN PLUGIN_MAP THEN PLUGIN_MAP[graph_type]
        ELSE "ValueError"

\* PluginDispatcher.dispatch, BasePlugin.run: _apply_mapping comes first
ApplyMapping ==
    /\ pc = "mapping"
    /\ pre' = df
    /\ df' = apply_mapping(df, config)
    /\ InPlace
    /\ pc' = "done"
    /\ UNCHANGED wide
    /\ Idle

NextPipe ==
    \/ ApplyTransformation
    \/ SanitizeHeaders
    \/ SanitizeValues
    \/ AutoMelt
    \/ FinalTypeEnforcement
    \/ ApplyMapping

SpecPipe == InitPipe /\ [][NextPipe]_vars

-----------------------------------------------------------------------------
(* Claims about the pipeline *)

NumericColumn(col) == \A j \in 1..Len(col.cells) : IsNumber(col.cells[j])
TextColumn(col) == \A j \in 1..Len(col.cells) : IsText(col.cells[j])

\* a table of one text column headed `head` and five numeric columns S1..S5
TextAndFive(t, head) ==
    /\ ColNames(t) = <<head, HS("1"), HS("2"), HS("3"), HS("4"), HS("5")>>
    /\ TextColumn(t[1])
    /\ \A i \in 2..6 : NumericColumn(t[i])

AfterMelt == pc \in {"types", "raised"}
LowerNames(t) == [i \in 1..Len(t) |-> Lower(t[i].name)]

\* C4 as stated: as the fourth stage of the pipeline, the table
\* [Group(text), S1..S5(numeric)] of a graph that is neither scatter nor
\* heatmap is classified wide and melted into [Group, variable, value] with
\* five times the rows (the case of the letters of Group left open).
C4_GroupTableIsMelted ==
    (AfterMelt /\ TextAndFive(raw, HGroup) /\ ~SkipsMelt(config))
        => /\ wide
           /\ LowerNames(df) = <<GroupName, VariableName, ValueName>>
           /\ NRows(df) = NRows(raw) * 5

\* C4 amended: as the fourth stage of the pipeline (graph neither scatter
\* nor heatmap), the table [Group(text), S1..S5(numeric)] arrives with its
\* text column named group and is left as it is, [group, s1..s5] with the
\* same rows; the same table with the text column headed Name is classified
\* wide and melted into [name, variable, value] with five times the rows.
C4_GroupTableIsKept ==
    (AfterMelt /\ ~SkipsMelt(config))
        => /\ TextAndFive(raw, HGroup)
                => /\ ~wide
                   /\ pc = "types"
                   /\ df = pre
                   /\ ColNames(df) = <<GroupName, <<"s", "1">>, <<"s", "2">>,
                                       <<"s", "3">>, <<"s", "4">>, <<"s", "5">>>>
                   /\ NRows(df) = NRows(raw)
           /\ TextAndFive(raw, HName)
                => /\ wide
                   /\ pc = "types"
                   /\ ColNames(df) = <<<<"n", "a", "m", "e">>, VariableName,
                                       ValueName>>
                   /\ NRows(df) = NRows(raw) * 5

C4_Witness ==
    /\ pc = "types"
    /\ TextAndFive(raw, HGroup)
    /\ ~SkipsMelt(config)
    /\ NRows(raw) = 2
    /\ Len(df) = 6
    /\ ~wide

\* the counts ShapeResolver compares, on the table it received
NumCount(t) == Cardinality(NumericPositions(t))
ObjCount(t) == Cardinality(ObjectPositions(t))

\* the stage returned a reshaped table
Reshaped == pc = "types" /\ df # pre

\* C20: a table with a column named group, numeric-leaning or not, is not
\* reshaped by ShapeResolver, whatever the column counts.
C20_GroupColumnPreventsReshape ==
    (AfterMelt /\ HasCol(pre, GroupName)) => ~Reshaped

\* C30: a table whose graph type the dispatcher hands to ScatterPlugin or
\* HeatmapPlugin is not reshaped by the cleaner, and a table handed to
\* ScatterPlugin gets no column renamed to group.
C30_GatesAgreeWithDispatcher ==
    /\ plugins_cls(config) \in {"ScatterPlugin", "HeatmapPlugin"} => ~Reshaped
    /\ (plugins_cls(config) = "ScatterPlugin" /\ pc = "mapping")
          => ColNames(df) = ColNames(pre)

\* C5: for a graph that is neither scatter nor heatmap and a table with no
\* column named group, ShapeResolver reshapes exactly when the
\* numeric-leaning columns are strictly more than twice the others; on a
\* tie and with no numeric-leaning column the table is returned unchanged.
C5_ReshapeIffMoreThanTwice ==
    (AfterMelt /\ ~SkipsMelt(config) /\ ~HasCol(pre, GroupName))
        => /\ Reshaped <=> NumCount(pre) > 2 * ObjCount(pre)
           /\ (NumCount(pre) = 2 * ObjCount(pre) \/ NumCount(pre) = 0)
                => (pc = "types" /\ df = pre)

\* the output rows that carry row r and numeric column i of the input
RowsFor(before, after, r, i) ==
    LET ids == Sorted(ObjectPositions(before))
        K == Len(ids)
    IN  {k \in 1..NRows(after) :
            /\ Len(after) >= 3
            /\ after[Len(after) - 1].cells[k] = Text(Strip(before[i].name))
            /\ after[Len(after)].cells[k] = before[i].cells[r]
            /\ IF K = 0
               THEN after[1].cells[k] = Num(r - 1, 0)
               ELSE \A c \in 1..K :
                        c <= Len(after) /\ after[c].cells[k] = before[ids[c]].cells[r]}

\* C6: whenever ShapeResolver reshapes a table of R rows, N numeric-leaning
\* and K other columns, the result has R x N rows and the columns: the K
\* others (or one zero-based index column when K = 0), variable, value; and
\* every pair of an input row and a numeric-leaning column gives exactly one
\* output row with that row's id values, the column's trimmed name and that
\* cell; whatever the columns of the input are named.
C6_ReshapeShape ==
    (AfterMelt /\ wide)
        => LET N == NumCount(pre)
               K == ObjCount(pre)
               ids == Sorted(ObjectPositions(pre))
           IN  /\ pc = "types"
               /\ NRows(df) = NRows(pre) * N
               /\ Len(df) = (IF K = 0 THEN 1 ELSE K) + 2
               /\ ColNames(df)
                    = (IF K = 0 THEN <<IndexName>>
                       ELSE [c \in 1..K |-> pre[ids[c]].name])
                      \o <<VariableName, ValueName>>
               /\ \A r \in 1..NRows(pre) : \A i \in NumericPositions(pre) :
                      Cardinality(RowsFor(pre, df, r, i)) = 1

IsScatter(cfg) == Contains(ScatterWord, Lower(cfg.graph))

TextPositions(t) == {i \in 1..Len(t) : IsObjectDtype(t[i])}
FirstText(t) == CHOOSE i \in TextPositions(t) : \A j \in TextPositions(t) : i <= j

GroupCandidates(t, cfg) ==
    {i \in TextPositions(t) : t[i].name # ResolvedTarget(t, cfg)}

\* the names of t with the column at position i called group
NamesWithGroupAt(t, i) ==
    [j \in 1..Len(t) |-> IF j = i THEN GroupName ELSE t[j].name]

\* C21: with no column group and a graph that is not a scatter variant,
\* TypeEnforcer renames variable to group when there is a column variable,
\* and otherwise the first text column, in column order, whose name is not
\* the resolved dependent variable; with a column group nothing is renamed.
C21_GroupFromFirstOtherText ==
    pc = "mapping"
        => IF HasCol(pre, GroupName) THEN ColNames(df) = ColNames(pre)
           ELSE IF IsScatter(config) THEN TRUE
           ELSE IF HasCol(pre, VariableName)
           THEN ColNames(df) = ColNames(Rename(pre, VariableName, GroupName))
           ELSE IF GroupCandidates(df, config) # {}
           THEN \E i \in GroupCandidates(df, config) :
                   /\ \A j \in GroupCandidates(df, config) : i <= j
                   /\ ColNames(df) = NamesWithGroupAt(pre, i)
           ELSE ColNames(df) = ColNames(pre)

\* the positions of the resolved dependent-variable column in t
TargetPositions(t, cfg) ==
    {i \in 1..Len(t) : Truthy(cfg.dep) /\ t[i].name = TargetClean(cfg.dep)}

\* C23: with a linear model, a dependent-variable column that looks
\* categorical leaves TypeEnforcer with every cell unchanged.
C23_CategoricalTargetUntouched ==
    (pc = "mapping" /\ Lower(config.model) = LINEAR)
        => \A i \in TargetPositions(pre, config) :
              ~check_numeric(pre[i]) => df[i].cells = pre[i].cells

\* the rows of the end-to-end scenario
ScenarioTable ==
    << Col(HConc, <<Text(<<"1", ".", "5", " ", "m", "g", "/", "m", "L">>),
                    Text(<<"N", "D">>)>>),
       Col(HGroup, <<Text(<<"C", "o", "n", "t", "r", "o", "l">>),
                     Text(<<"T", "r", "e", "a", "t", "e", "d">>)>>) >>

ScenarioConfig(cfg) ==
    /\ cfg.graph = <<"b", "o", "x">>
    /\ cfg.dep = HConc
    /\ cfg.indep = HGroup

ColumnsNamed(t, name) == {i \in 1..Len(t) : t[i].name = name}

\* C9: end to end, the table [Conc. (mg/ml), Group] with the rows
\* [1.5 mg/mL, Control], [ND, Treated] and graph box, dependent variable
\* Conc. (mg/ml), independent variable Group ends with y = [1.5, Missing],
\* x = [Control, Treated] and a column group absent or equal to x.
C9_EndToEnd ==
    (pc = "done" /\ raw = ScenarioTable /\ ScenarioConfig(config))
        => /\ \E i \in 1..Len(df) :
                /\ ColumnsNamed(df, YName) = {i}
                /\ df[i].cells = <<Num(15, -1), Missing>>
           /\ \E i \in 1..Len(df) :
                /\ ColumnsNamed(df, XName) = {i}
                /\ df[i].cells = <<Text(<<"C", "o", "n", "t", "r", "o", "l">>),
                                   Text(<<"T", "r", "e", "a", "t", "e", "d">>)>>
                /\ \A g \in ColumnsNamed(df, GroupName) : df[g].cells = df[i].cells

\* C27: with graph box and an independent variable that names a column of
\* the input table other than the dependent variable, the table that leaves
\* ColumnMapper has a column x holding the sanitized values of that column.
C27_IndependentBecomesX ==
    (/\ pc = "done"
     /\ config.graph = <<"b", "o", "x">>
     /\ Truthy(config.indep)
     /\ HasCol(raw, config.indep)
     /\ config.indep # config.dep)
        => \A r \in 1..Len(raw) :
              raw[r].name = config.indep
                 => \E i \in 1..Len(df) :
                       /\ df[i].name = XName
                       /\ df[i].cells = MapCells(raw[r], clean_cell).cells

\* the positions of the column of t a declared target resolves to
ResolvesTo(t, target) ==
    {i \in 1..Len(t) : Truthy(target) /\ t[i].name = find_col(target, ColNames(t))}

\* C28: after ColumnMapper at most one column is named x and at most one y,
\* and when the declared independent and dependent variables resolve to
\* two different columns, the first is named x and the second y.
C28_RolesAssignedOnce ==
    pc = "done"
        => /\ Cardinality(ColumnsNamed(df, XName)) <= 1
           /\ Cardinality(ColumnsNamed(df, YName)) <= 1
           /\ \A i \in ResolvesTo(pre, config.indep) :
                 \A j \in ResolvesTo(pre, config.dep) :
                    i # j => (df[i].name = XName /\ df[j].name = YName)

C9_Witness ==
    /\ pc = "done"
    /\ raw = ScenarioTable
    /\ ScenarioConfig(config)
    /\ config.model = LINEAR
    /\ Len(df) = 2

AfterTransform == pc = "headers"
IsLinear(cfg) == Lower(cfg.model) = LINEAR
TargetIsRawColumn(t, cfg) == Truthy(cfg.dep) /\ HasCol(t, cfg.dep)

\* C11: TransformationStage leaves the whole table unchanged when the model
\* is linear; when the model is not linear and the declared dependent
\* variable is one of the raw column names, only cells of that column
\* change: every other column, the column names and the row count stay.
C11_TransformFrame ==
    AfterTransform
        => /\ IsLinear(config) => df = pre
           /\ (~IsLinear(config) /\ TargetIsRawColumn(pre, config))
                => /\ ColNames(df) = ColNames(pre)
                   /\ \A i \in 1..Len(pre) :
                        /\ Len(df[i].cells) = Len(pre[i].cells)
                        /\ pre[i].name # config.dep => df[i] = pre[i]

\* the table DataCleaner.run returns has the columns and rows it was given
SameLayout == Len(df) = Len(raw) /\ NRows(df) = NRows(raw)

\* C29: with a model that is not linear and the dependent variable found by
\* its raw name, every Number of that column in the table DataCleaner.run
\* returns is the logarithm of the number of the original cell, also for
\* a cell whose number came with unit text.
C29_TargetColumnOnLogScale ==
    (/\ pc = "mapping"
     /\ ~IsLinear(config)
     /\ TargetIsRawColumn(raw, config)
     /\ SameLayout)
        => \A r \in 1..Len(raw) :
              raw[r].name = config.dep
                 => \A j \in 1..Len(raw[r].cells) :
                       IsNumber(df[r].cells[j])
                          => df[r].cells[j] =
                                math_op(Lower(config.model),
                                        clean_cell(raw[r].cells[j]))

\* the declared dependent variable is no raw column name, but is one up
\* to letter case and whitespace
NearMiss(t, cfg) ==
    /\ Truthy(cfg.dep)
    /\ ~HasCol(t, cfg.dep)
    /\ \E i \in 1..Len(t) : sanitize_header(t[i].name) = sanitize_header(cfg.dep)

C11_Witness ==
    /\ AfterTransform
    /\ ~IsLinear(config)
    /\ TargetIsRawColumn(pre, config)
    /\ df # pre
    /\ \E i \in 1..Len(pre) : pre[i].name # config.dep /\ NumericColumn(pre[i])

\* C12: with a graph type containing scatter or heatmap, ShapeResolver
\* returns the table it was given unchanged (same columns, rows and cells)
\* whatever the counts of numeric-leaning and other columns are.
C12_SkipLeavesTable ==
    (AfterMelt /\ SkipsMelt(config))
        => /\ pc = "types"
           /\ df = pre
           /\ ~wide

\* C13: after HeaderNormalizer the column names are pairwise distinct for
\* every table whose raw column names are pairwise distinct, and every
\* column has the number of rows it had.
C13_NormalizedNamesDistinct ==
    (pc = "values" /\ DistinctNames(raw))
        => /\ DistinctNames(df)
           /\ Len(df) = Len(pre)
           /\ \A i \in 1..Len(df) : Len(df[i].cells) = Len(pre[i].cells)

-----------------------------------------------------------------------------
(* AnalysisWizard.run: the four steps and their prompts *)

BACK_SIGNAL == <<"__BACK__">>

\* the columns of the wizard's table and whether is_numeric_col accepts them
WizardColumns == <<<<"G">>, <<"S">>, <<"T">>>>
WizardNumeric == <<FALSE, TRUE, TRUE>>

graph_map ==
    [k \in {<<"1">>, <<"2">>, <<"3">>, <<"4">>} |->
        CASE k = <<"1">> -> "Box" [] k = <<"2">> -> "Scatter"
          [] k = <<"3">> -> "Volcano" [] k = <<"4">> -> "Heatmap"]

transform_map ==
    [k \in {<<"1">>, <<"2">>, <<"3">>, <<"4">>} |->
        CASE k = <<"1">> -> LINEAR [] k = <<"2">> -> LOG2
          [] k = <<"3">> -> LOG10 [] k = <<"4">> -> LN]

\* what get_user_input returns at the prompts
ChoiceAnswers == {<<"1">>, <<"2">>, <<"3">>, <<"4">>, <<"9">>, <<>>, BACK_SIGNAL}
ColumnAnswers ==
    {<<"0">>, <<"1">>, <<"2">>, <<"7">>, <<"g">>, <<"T">>, <<"x">>, BACK_SIGNAL}
YesNoAnswers == {<<"y">>, <<"Y">>, <<"n">>, <<>>, BACK_SIGNAL}
TextAnswers == {<<"T">>, <<>>, BACK_SIGNAL}

\* _get_valid_value: the index an answer gives or, case-insensitively, names;
\* -1 when the prompt is repeated
ColumnIndex(val) ==
    IF Len(val) = 1 /\ IsDigit(val[1])
    THEN IF DigitVal(val[1]) < Len(WizardColumns) THEN DigitVal(val[1]) ELSE -1
    ELSE IF \E i \in 1..Len(WizardColumns) : Lower(WizardColumns[i]) = Lower(val)
    THEN (CHOOSE i \in 1..Len(WizardColumns) :
            /\ Lower(WizardColumns[i]) = Lower(val)
            /\ \A j \in 1..(i - 1) : Lower(WizardColumns[j]) # Lower(val)) - 1
    ELSE -1

InitWizard ==
    /\ wiz = [step |-> 1, at |-> "graph", graph_selected |-> "Box",
              x_idx |-> -1, y_idx |-> -1,
              xlabel |-> None, ylabel |-> None, model |-> None,
              title |-> None, legend |-> FALSE, legend_name |-> None,
              ret |-> "running"]
    /\ backing = FALSE
    /\ hm = None /\ mn = None /\ sel = None
    /\ ColIdle
    /\ CellIdle
    /\ HdrIdle
    /\ PipeIdle

WizIdle == UNCHANGED <<cellVars, hdrVars, pipeVars, hm, mn, sel, colVars>>

\* an answer the user can give: only BACK once they are backing out
Allowed(val) == backing => val = BACK_SIGNAL

\* the prompt step 3 opens with: none for the graphs it skips
Step3Entry(graph) ==
    IF graph \in {"Volcano", "Heatmap"} THEN "skip3" ELSE "model"

\* step 1: Choice (1-4)
AnswerGraph ==
    /\ wiz.ret = "running" /\ wiz.at = "graph"
    /\ \E val \in ChoiceAnswers :
        /\ Allowed(val)
        /\ wiz' = IF val = BACK_SIGNAL THEN [wiz EXCEPT !.ret = "none"]
                  ELSE IF val \in DOMAIN graph_map
                  THEN [wiz EXCEPT !.graph_selected = graph_map[val],
                                   !.step = 2, !.at = "x"]
                  ELSE wiz
    /\ UNCHANGED backing
    /\ WizIdle

\* step 2: Select X-axis
AnswerX ==
    /\ wiz.ret = "running" /\ wiz.at = "x"
    /\ \E val \in ColumnAnswers :
        /\ Allowed(val)
        /\ wiz' = IF val = BACK_SIGNAL
                  THEN [wiz EXCEPT !.step = 1, !.at = "graph"]
                  ELSE IF ColumnIndex(val) >= 0
                  THEN [wiz EXCEPT !.x_idx = ColumnIndex(val), !.at = "y"]
                  ELSE wiz
    /\ UNCHANGED backing
    /\ WizIdle

\* step 2: Select Y-axis, asked again for a column that is not numeric;
\* BACK re-enters step 2
AnswerY ==
    /\ wiz.ret = "running" /\ wiz.at = "y"
    /\ \E val \in ColumnAnswers :
        /\ Allowed(val)
        /\ wiz' = IF val = BACK_SIGNAL THEN [wiz EXCEPT !.at = "x"]
                  ELSE IF ColumnIndex(val) >= 0
                          /\ WizardNumeric[ColumnIndex(val) + 1]
                  THEN [wiz EXCEPT !.y_idx = ColumnIndex(val),
                                   !.xlabel = WizardColumns[wiz.x_idx + 1],
                                   !.ylabel = WizardColumns[ColumnIndex(val) + 1],
                                   !.step = 3,
                                   !.at = Step3Entry(wiz.graph_selected)]
                  ELSE wiz
    /\ UNCHANGED backing
    /\ WizIdle

\* step 3 of a Volcano or Heatmap: no prompt, the model is linear
SkipTransformation ==
    /\ wiz.ret = "running" /\ wiz.at = "skip3"
    /\ wiz' = [wiz EXCEPT !.model = LINEAR, !.step = 4, !.at = "title_q"]
    /\ UNCHANGED backing
    /\ WizIdle

\* step 3: Choice (1-4, Default Linear)
AnswerModel ==
    /\ wiz.ret = "running" /\ wiz.at = "model"
    /\ \E val \in ChoiceAnswers :
        /\ Allowed(val)
        /\ LET t_choice == IF val = <<>> THEN <<"1">> ELSE val
           IN  wiz' = IF val = BACK_SIGNAL
                      THEN [wiz EXCEPT !.step = 2, !.at = "x"]
                      ELSE IF t_choice \in DOMAIN transform_map
                      THEN [wiz EXCEPT !.model = transform_map[t_choice],
                                       !.step = 4, !.at = "title_q"]
                      ELSE wiz
    /\ UNCHANGED backing
    /\ WizIdle

\* at a prompt of step 4 the user may decide to back out for good
Decides(val) ==
    \E b \in BOOLEAN : backing' = (backing \/ (b /\ val = BACK_SIGNAL))

\* step 4: Show Title?
AnswerTitleQ ==
    /\ wiz.ret = "running" /\ wiz.at = "title_q"
    /\ \E val \in YesNoAnswers :
        /\ Allowed(val)
        /\ Decides(val)
        /\ wiz' = IF val = BACK_SIGNAL
                  THEN [wiz EXCEPT !.step = 3,
                                   !.at = Step3Entry(wiz.graph_selected)]
                  ELSE IF Lower(val) = <<"y">>
                  THEN [wiz EXCEPT !.title = None, !.at = "title"]
                  ELSE [wiz EXCEPT !.title = None, !.at = "legend_q"]
    /\ WizIdle

\* step 4: Enter Title; BACK re-enters step 4
AnswerTitle ==
    /\ wiz.ret = "running" /\ wiz.at = "title"
    /\ \E val \in TextAnswers :
        /\ Allowed(val)
        /\ Decides(val)
        /\ wiz' = IF val = BACK_SIGNAL THEN [wiz EXCEPT !.at = "title_q"]
                  ELSE [wiz EXCEPT !.title = IF val = <<>>
                                             THEN wiz.ylabel \o <<" Analysis">>
                                             ELSE val,
                                   !.at = "legend_q"]
    /\ WizIdle

\* the loop ends with step = 5 and the configuration is returned
Returned(w) == [w EXCEPT !.step = 5, !.at = "end", !.ret = "config"]

\* step 4: Show Legend?; BACK does step -= 1
AnswerLegendQ ==
    /\ wiz.ret = "running" /\ wiz.at = "legend_q"
    /\ \E val \in YesNoAnswers :
        /\ Allowed(val)
        /\ Decides(val)
        /\ wiz' = IF val = BACK_SIGNAL
                  THEN [wiz EXCEPT !.step = 3,
                                   !.at = Step3Entry(wiz.graph_selected)]
                  ELSE IF Lower(val) = <<"y">>
                  THEN [wiz EXCEPT !.legend = TRUE, !.legend_name = None,
                                   !.at = "legend_name"]
                  ELSE Returned([wiz EXCEPT !.legend = FALSE,
                                            !.legend_name = None])
    /\ WizIdle

\* step 4: Enter Legend Name; BACK re-enters step 4
AnswerLegendName ==
    /\ wiz.ret = "running" /\ wiz.at = "legend_name"
    /\ \E val \in TextAnswers :
        /\ Allowed(val)
        /\ Decides(val)
        /\ wiz' = IF val = BACK_SIGNAL THEN [wiz EXCEPT !.at = "title_q"]
                  ELSE Returned([wiz EXCEPT !.legend_name =
                                    IF val = <<>> THEN wiz.ylabel ELSE val])
    /\ WizIdle

NextWizard ==
    \/ AnswerGraph
    \/ AnswerX
    \/ AnswerY
    \/ SkipTransformation
    \/ AnswerModel
    \/ AnswerTitleQ
    \/ AnswerTitle
    \/ AnswerLegendQ
    \/ AnswerLegendName

SpecWizard == InitWizard /\ [][NextWizard]_vars

\* every prompt is answered and the loop keeps running
SpecWizardFair == SpecWizard /\ WF_vars(NextWizard)

\* C15: for every graph type chosen at step 1, a user who has reached step 4
\* and from then on answers BACK at every prompt is walked back to step 1
\* and the wizard returns None.
C15_BackingOutReturnsNone == backing ~> (wiz.ret = "none")

\* the step taken on BACK at Show Legend?: every other answer asks for the
\* legend name or returns the configuration
BackAtLegend ==
    wiz.at = "legend_q" /\ wiz'.at \notin {"legend_name", "end"}

\* C25: BACK at Show Legend? re-enters step 4 and Show Title? is asked
\* again; the wizard does not go to step 3.
C25_LegendBackStaysInStep4 ==
    [][BackAtLegend => (wiz'.step = 4 /\ wiz'.at = "title_q")]_vars

-----------------------------------------------------------------------------
(* WizardSteps._handle_heatmap_subtype: mode, normalization, clustering *)

\* a key the config dict does not hold
Absent == "<absent>"
\* a prompt that is repeated
Invalid == <<"<invalid>">>

choice_map == [k \in {<<"1">>, <<"2">>} |->
                 IF k = <<"1">> THEN "correlation" ELSE "expression"]
z_map == [k \in {<<"0">>, <<"1">>, <<"2">>} |->
            CASE k = <<"0">> -> "None" [] k = <<"1">> -> "0" [] k = <<"2">> -> "1"]
clust_map == [k \in {<<"y">>, <<"n">>} |->
                IF k = <<"y">> THEN "True" ELSE "False"]

\* what get_user_input returns at the prompts of the three steps
ModeAnswers == {<<"1">>, <<"2">>, <<"3">>, <<>>, BACK_SIGNAL}
NormAnswers == {<<"0">>, <<"1">>, <<"2">>, <<"9">>, <<>>, BACK_SIGNAL}
ClusterAnswers == {<<"y">>, <<"Y">>, <<"n">>, <<"N">>, <<"x">>, <<>>, BACK_SIGNAL}

\* _get_valid_choice: BACK_SIGNAL, the key the answer selects, or Invalid
get_valid_choice(answer, valid_map, default_key) ==
    IF answer = BACK_SIGNAL THEN BACK_SIGNAL
    ELSE LET val == IF answer = <<>> THEN default_key ELSE answer
         IN  IF val \in DOMAIN valid_map THEN val
             ELSE IF \E k \in DOMAIN valid_map : Lower(k) = Lower(val)
             THEN CHOOSE k \in DOMAIN valid_map : Lower(k) = Lower(val)
             ELSE Invalid

\* the step BACK leads to from normalization or clustering
heatmap_back_to_mode(step) == 0
heatmap_back(step) == step - 1

\* what a correlation choice writes into the config
correlation_config_keep(c) ==
    [c EXCEPT !.heatmap_mode = "correlation", !.cluster = "True"]
correlation_config(c) ==
    [c EXCEPT !.heatmap_mode = "correlation", !.cluster = "True",
              !.z_score = Absent]

\* the config dict the function is handed: a earlier call may have left keys
HeatmapConfigs ==
    [heatmap_mode : {Absent, "correlation", "expression"},
     z_score : {Absent, "None", "0", "1"},
     cluster : {Absent, "True", "False"}]

\* ans, z_given and c_given record the last answer and the last accepted
\* normalization and clustering answers of this call
InitHeatmap ==
    /\ hm \in [step : {0}, config : HeatmapConfigs, ret : {"running"},
               ans : {<<>>}, z_given : {Absent}, c_given : {Absent}]
    /\ wiz = None /\ backing = FALSE /\ mn = None /\ sel = None
    /\ ColIdle
    /\ CellIdle
    /\ HdrIdle
    /\ PipeIdle

HmIdle ==
    UNCHANGED <<cellVars, hdrVars, pipeVars, wiz, backing, mn, sel, colVars>>

\* step 0: Choice (1-2, Default 1)
AnswerMode ==
    /\ hm.ret = "running" /\ hm.step = 0
    /\ \E answer \in ModeAnswers :
        \E res \in {get_valid_choice(answer, choice_map, <<"1">>)} :
            hm' = IF res = BACK_SIGNAL
                  THEN [hm EXCEPT !.ans = answer, !.ret = "BACK_SIGNAL"]
                  ELSE IF res = Invalid THEN [hm EXCEPT !.ans = answer]
                  ELSE IF choice_map[res] = "correlation"
                  THEN [hm EXCEPT !.ans = answer, !.ret = "True",
                                  !.config = correlation_config(hm.config)]
                  ELSE [hm EXCEPT !.ans = answer, !.step = 1,
                                  !.config.heatmap_mode = "expression"]
    /\ HmIdle

\* step 1: Choice (0-2, Default 0)
AnswerNormalization ==
    /\ hm.ret = "running" /\ hm.step = 1
    /\ \E answer \in NormAnswers :
        \E z_res \in {get_valid_choice(answer, z_map, <<"0">>)} :
            hm' = IF z_res = BACK_SIGNAL
                  THEN [hm EXCEPT !.ans = answer, !.step = heatmap_back(1)]
                  ELSE IF z_res = Invalid THEN [hm EXCEPT !.ans = answer]
                  ELSE [hm EXCEPT !.ans = answer, !.step = 2,
                                  !.config.z_score = z_map[z_res],
                                  !.z_given = z_map[z_res]]
    /\ HmIdle

\* step 2: Cluster Columns/Rows? (y/n, default: y)
AnswerClustering ==
    /\ hm.ret = "running" /\ hm.step = 2
    /\ \E answer \in ClusterAnswers :
        \E c_res \in {get_valid_choice(answer, clust_map, <<"y">>)} :
            hm' = IF c_res = BACK_SIGNAL
                  THEN [hm EXCEPT !.ans = answer, !.step = heatmap_back(2)]
                  ELSE IF c_res = Invalid THEN [hm EXCEPT !.ans = answer]
                  ELSE [hm EXCEPT !.ans = answer, !.ret = "True",
                                  !.config.cluster = clust_map[c_res],
                                  !.c_given = clust_map[c_res]]
    /\ HmIdle

NextHeatmap ==
    \/ AnswerMode
    \/ AnswerNormalization
    \/ AnswerClustering

SpecHeatmap == InitHeatmap /\ [][NextHeatmap]_vars

\* an answer the step's prompt accepts
AcceptedAt(step, answer) ==
    /\ answer # BACK_SIGNAL
    /\ CASE step = 0 -> get_valid_choice(answer, choice_map, <<"1">>) # Invalid
         [] step = 1 -> get_valid_choice(answer, z_map, <<"0">>) # Invalid
         [] step = 2 -> get_valid_choice(answer, clust_map, <<"y">>) # Invalid

\* C16: BACK at step 2 returns to step 1, BACK at step 1 returns to step 0,
\* BACK at step 0 ends the function with BACK_SIGNAL; the function returns
\* True only directly after a correlation choice at step 0 or a valid
\* clustering answer at step 2; steps 1 and 2 are entered only with the
\* mode expression chosen.
C16_StepNavigation ==
    /\ [][/\ (hm'.ans = BACK_SIGNAL /\ hm.step = 2) =>
                (hm'.step = 1 /\ hm'.ret = "running")
          /\ (hm'.ans = BACK_SIGNAL /\ hm.step = 1) =>
                (hm'.step = 0 /\ hm'.ret = "running")
          /\ (hm'.ans = BACK_SIGNAL /\ hm.step = 0) => hm'.ret = "BACK_SIGNAL"
          /\ hm'.ret = "True" =>
                \/ /\ hm.step = 0
                   /\ AcceptedAt(0, hm'.ans)
                   /\ hm'.config.heatmap_mode = "correlation"
                \/ /\ hm.step = 2
                   /\ AcceptedAt(2, hm'.ans)
          /\ hm'.step \in {1, 2} => hm'.config.heatmap_mode = "expression"
         ]_vars
    /\ [](hm.step \in {1, 2} => hm.config.heatmap_mode = "expression")

\* the user went to clustering, backed out to normalization and on to mode
C16_Witness ==
    /\ hm.step = 0 /\ hm.ans = BACK_SIGNAL /\ hm.ret = "running"
    /\ hm.z_given # Absent

\* C17: a return of True with mode correlation leaves cluster = True and no
\* z_score key, whatever was answered before backing out to the mode step;
\* a return of True with mode expression leaves the last normalization and
\* clustering answers in z_score and cluster.
C17_ReturnedConfig ==
    hm.ret = "True" =>
        /\ hm.config.heatmap_mode = "correlation" =>
              (hm.config.cluster = "True" /\ hm.config.z_score = Absent)
        /\ hm.config.heatmap_mode = "expression" =>
              /\ hm.z_given # Absent /\ hm.config.z_score = hm.z_given
              /\ hm.c_given # Absent /\ hm.config.cluster = hm.c_given

\* correlation chosen after a normalization answer was given in this call
C17_Witness ==
    /\ hm.ret = "True" /\ hm.config.heatmap_mode = "correlation"
    /\ hm.z_given # Absent

-----------------------------------------------------------------------------
(* main: the loop around data discovery, the wizard, the cleaner and the
   dispatcher *)

\* what get_user_input(allow_back=False) returns at "Restart wizard?"
RestartAnswers == {<<"y">>, <<"Y">>, <<"n">>, <<"b">>, <<>>, <<"y", "e", "s">>}

\* retry.lower() != 'y': the main loop is left
ExitsNever(retry) == FALSE
ExitsOnAnswer(retry) == Lower(retry) # <<"y">>

\* mode, input, config and candidates are the command line and the directory;
\* cleaned and dispatched say what the current iteration has run; restarts
\* counts the 'y' answers
InitMain ==
    /\ mn \in [pc : {"start"}, mode : {"human", "api"},
               input : BOOLEAN, has_config : BOOLEAN, candidates : 0..2,
               interactive : {FALSE}, config : {"unset"}, retry : {None},
               wizard_calls : {0}, restarts : {0},
               cleaned : {FALSE}, dispatched : {FALSE}]
    /\ wiz = None /\ backing = FALSE /\ hm = None /\ sel = None
    /\ ColIdle
    /\ CellIdle
    /\ HdrIdle
    /\ PipeIdle

MainIdle ==
    UNCHANGED <<cellVars, hdrVars, pipeVars, wiz, backing, hm, sel, colVars>>

\* the start of an iteration: data discovery
Discover ==
    /\ mn.pc = "start"
    /\ LET it == [mn EXCEPT !.interactive = FALSE, !.config = "unset",
                            !.cleaned = FALSE, !.dispatched = FALSE]
       IN  mn' = IF mn.mode = "api" THEN [mn EXCEPT !.pc = "end"]
                 ELSE IF mn.input THEN [it EXCEPT !.pc = "load"]
                 ELSE IF mn.candidates = 0 THEN [it EXCEPT !.pc = "end"]
                 ELSE IF mn.candidates > 1
                 THEN [it EXCEPT !.interactive = TRUE, !.pc = "select"]
                 ELSE [it EXCEPT !.pc = "load"]
    /\ MainIdle

\* Select data file: an index, something else, or quit
SelectFile ==
    /\ mn.pc = "select"
    /\ \E valid \in BOOLEAN :
        mn' = [mn EXCEPT !.pc = IF valid THEN "load" ELSE "end"]
    /\ MainIdle

\* smart_load_data returns the table or raises
LoadData ==
    /\ mn.pc = "load"
    /\ \E ok \in BOOLEAN :
        mn' = [mn EXCEPT !.pc = IF ok THEN "config" ELSE "end"]
    /\ MainIdle

\* a config file given or found is parsed, otherwise the wizard is launched
FindConfig ==
    /\ mn.pc = "config"
    /\ mn' = IF mn.has_config THEN [mn EXCEPT !.config = "dict", !.pc = "clean"]
             ELSE [mn EXCEPT !.pc = "wizard"]
    /\ MainIdle

\* wizard.run returns a configuration or None, or the user quits inside it
RunWizard ==
    /\ mn.pc = "wizard"
    /\ mn.wizard_calls < MaxWizardCalls
    /\ \E outcome \in {"dict", "None", "exit"} :
        LET called == [mn EXCEPT !.wizard_calls = @ + 1]
        IN  mn' = CASE outcome = "exit" -> [called EXCEPT !.pc = "end"]
                    [] outcome = "dict" ->
                        [called EXCEPT !.config = "dict", !.pc = "clean"]
                    [] outcome = "None" ->
                        [called EXCEPT !.config = "None",
                                       !.pc = IF ~mn.interactive
                                              THEN "restart_q" ELSE "start"]
    /\ MainIdle

\* Restart wizard? (y/n, default: n)
AnswerRestart ==
    /\ mn.pc = "restart_q"
    /\ \E retry \in RestartAnswers :
        mn' = IF ExitsOnAnswer(retry)
              THEN [mn EXCEPT !.retry = retry, !.pc = "end"]
              ELSE [mn EXCEPT !.retry = retry, !.restarts = @ + 1,
                              !.pc = "start"]
    /\ MainIdle

\* DataCleaner(raw_df, config).run() returns or raises
RunCleaner ==
    /\ mn.pc = "clean"
    /\ \E ok \in BOOLEAN :
        mn' = [mn EXCEPT !.cleaned = TRUE,
                         !.pc = IF ok THEN "dispatch" ELSE "end"]
    /\ MainIdle

\* dispatcher.dispatch(config, clean_df), then the loop is left
RunDispatcher ==
    /\ mn.pc = "dispatch"
    /\ mn' = [mn EXCEPT !.dispatched = TRUE, !.pc = "end"]
    /\ MainIdle

NextMain ==
    \/ Discover
    \/ SelectFile
    \/ LoadData
    \/ FindConfig
    \/ RunWizard
    \/ AnswerRestart
    \/ RunCleaner
    \/ RunDispatcher

SpecMain == InitMain /\ [][NextMain]_vars

\* C18: when the wizard returns None for a data file that was not chosen at
\* the selection prompt, the user is asked whether to restart; any answer
\* other than y ends the main loop without a further call of wizard.run (one
\* call when no restart was asked for before); the cleaner and the dispatcher
\* never run in an iteration in which the wizard returned None.
C18_CancelEndsLoop ==
    /\ [][/\ (mn.pc = "wizard" /\ mn'.config = "None" /\ ~mn.interactive) =>
                mn'.pc = "restart_q"
          /\ (mn.pc = "restart_q" /\ Lower(mn'.retry) # <<"y">>) =>
                /\ mn'.pc = "end"
                /\ mn'.wizard_calls = mn'.restarts + 1
                /\ mn'.restarts = mn.restarts
         ]_vars
    /\ []((mn.cleaned \/ mn.dispatched) => mn.config = "dict")

\* one discovered file, the wizard cancelled once, the answer n
C18_Witness ==
    /\ mn.pc = "end" /\ mn.config = "None" /\ mn.retry = <<"n">>
    /\ ~mn.input /\ mn.candidates = 1 /\ mn.wizard_calls = 1

-----------------------------------------------------------------------------
(* One column through _sanitize_values and is_numeric_leaning *)

\* the cells a loader puts into a column
ColumnCells ==
    { Num(4, 0), Missing, Text(<<"N", "D">>), Text(<<"x">>),
      Text(<<"8", " ", "m", "g">>) }

InitColumn ==
    /\ column \in {Col(<<"a">>, cs) :
                     cs \in UNION {[1..n -> ColumnCells] : n \in 1..MaxColLen}}
    /\ leaning = "raw"
    /\ CellIdle
    /\ HdrIdle
    /\ PipeIdle
    /\ UiIdle

ColOnly == UNCHANGED <<cellVars, hdrVars, pipeVars, uiVars>>

\* _sanitize_values on the column
SanitizeColumn ==
    /\ leaning = "raw"
    /\ column' = MapCells(column, clean_cell)
    /\ leaning' = "clean"
    /\ ColOnly

\* is_numeric_leaning(self.df[c])
ClassifyColumn ==
    /\ leaning = "clean"
    /\ leaning' = IF is_numeric_leaning(column) THEN "numeric" ELSE "object"
    /\ UNCHANGED column
    /\ ColOnly

NextColumn ==
    \/ SanitizeColumn
    \/ ClassifyColumn

SpecColumn == InitColumn /\ [][NextColumn]_vars

\* the cells of a column that are not Missing
NonMissingCount(col) ==
    Cardinality({j \in 1..Len(col.cells) : ~IsMissing(col.cells[j])})

\* C19: a column that is not natively numeric is numeric-leaning exactly when
\* more than half of its non-missing values parse as numbers.
C19_HalfOfNonMissing ==
    (leaning \in {"numeric", "object"} /\ IsObjectDtype(column)) =>
        (leaning = "numeric" <=>
            2 * NumericCount(column) > NonMissingCount(column))

-----------------------------------------------------------------------------
(* TypeEnforcer's extract_num on one cell *)

InitExtract ==
    /\ cell \in CleanInputs
    /\ cmodel = None
    /\ cellOut = Missing
    /\ cpc = "start"
    /\ HdrIdle
    /\ PipeIdle
    /\ UiIdle
    /\ ColIdle

\* self.df[target_y_clean].map(extract_num), on one cell
ExtractNum ==
    /\ cpc = "start"
    /\ cellOut' = extract_num(cell)
    /\ cpc' = "extracted"
    /\ UNCHANGED <<cell, cmodel, hdrVars, pipeVars, uiVars, colVars>>

NextExtract == ExtractNum

SpecExtract == InitExtract /\ [][NextExtract]_vars

\* C22: the cell TypeEnforcer puts into the dependent-variable column is
\* the cell ValueSanitizer makes of the same input when that is a Number,
\* and Missing otherwise.
C22_ExtractionAsValueSanitizer ==
    cpc = "extracted" =>
        \E c \in {clean_cell(cell)} :
            cellOut = IF IsNumber(c) THEN c ELSE Missing

\* a number taken from the front of a string that is no number as a whole
C22_Witness ==
    /\ cpc = "extracted"
    /\ IsText(cell)
    /\ ~ParseFloat(Strip(cell.s)).ok
    /\ IsNumber(cellOut)

-----------------------------------------------------------------------------
(* WizardSteps.run_step_2 for a Heatmap: the selection of the columns *)

\* self.columns and what is_numeric_col answers for them
StepColumns == <<<<"G">>, <<"S">>, <<"T">>, <<"N">>, <<"U">>, <<"V">>>>
StepNumeric == <<FALSE, TRUE, TRUE, FALSE, TRUE, TRUE>>

\* what get_user_input returns at Select Column
SelectAnswers ==
    { <<"0">>, <<"1">>, <<"2">>, <<"4">>, <<"5">>, <<"9">>,
      <<"a", "l", "l">>, <<"A", "l", "l">>, <<"u", "n", "d", "o">>,
      <<"d", "o", "n", "e">>, <<"D", "O", "N", "E">>, <<>>,
      <<"1", "-", "2">>, <<"5", "-", "3">>, <<"0", "-", "9">>,
      <<"1", "-", "2", "-", "4">>, <<"-", "1">>, <<"4", "-">>, <<"-">>,
      <<"s">>, <<"T">>, <<"G">>, <<"x">>, BACK_SIGNAL }

\* what it returns at Confirm go back?
ConfirmAnswers == {<<"n">>, <<"N">>, <<"y">>, <<>>, BACK_SIGNAL}

\* str.isdigit() and int() on decimal digits
IsDigitStr(s) == s # <<>> /\ \A i \in 1..Len(s) : IsDigit(s[i])

RECURSIVE IntOf(_)
IntOf(s) ==
    IF s = <<>> THEN 0
    ELSE 10 * IntOf(SubSeq(s, 1, Len(s) - 1)) + DigitVal(s[Len(s)])

\* col_name not in selected_cols, on column positions
Selected(selected, i) == \E k \in 1..Len(selected) : selected[k] = i

\* the append without the two tests
add_col_unchecked(selected, i) == Append(selected, i)

\* if is_numeric_col(c) and c not in selected_cols: selected_cols.append(c)
add_col(selected, i) ==
    IF StepNumeric[i] /\ ~Selected(selected, i) THEN Append(selected, i)
    ELSE selected

\* the loop over the positions lo..hi that are columns, in order
RECURSIVE add_range(_, _, _)
add_range(selected, lo, hi) ==
    IF lo > hi THEN selected
    ELSE add_range(IF lo \in 1..Len(StepColumns) THEN add_col(selected, lo)
                   ELSE selected, lo + 1, hi)

\* '-' in val and val.replace('-','').isdigit(), and the split unpacks
\* into two integers
Dashes(val) == {i \in 1..Len(val) : val[i] = "-"}
IsRange(val) ==
    /\ Cardinality(Dashes(val)) = 1
    /\ \E p \in Dashes(val) :
          IsDigitStr(SubSeq(val, 1, p - 1)) /\ IsDigitStr(SubSeq(val, p + 1, Len(val)))
RangeOf(val) ==
    LET p == CHOOSE q \in Dashes(val) : TRUE
        a == IntOf(SubSeq(val, 1, p - 1))
        b == IntOf(SubSeq(val, p + 1, Len(val)))
    IN  IF a > b THEN <<b, a>> ELSE <<a, b>>

\* the column an id or a name selects, 0 for none
col_found(val) ==
    IF IsDigitStr(val) /\ IntOf(val) < Len(StepColumns) THEN IntOf(val) + 1
    ELSE IF \E i \in 1..Len(StepColumns) : StepColumns[i] = val
    THEN CHOOSE i \in 1..Len(StepColumns) : StepColumns[i] = val
    ELSE IF \E i \in 1..Len(StepColumns) : Lower(StepColumns[i]) = Lower(val)
    THEN CHOOSE i \in 1..Len(StepColumns) :
            /\ Lower(StepColumns[i]) = Lower(val)
            /\ \A j \in 1..(i - 1) : Lower(StepColumns[j]) # Lower(val)
    ELSE 0

\* stored is config['selected_columns'] (Absent for no key), stored0 what
\* it was when the step was entered
InitSelect ==
    /\ sel \in [selected : {<<>>}, at : {"select"}, ret : {"running"},
                stored : {<<Absent>>, <<2, 3>>}, stored0 : {<<Absent>>, <<2, 3>>}]
    /\ sel.stored = sel.stored0
    /\ wiz = None /\ backing = FALSE /\ hm = None /\ mn = None
    /\ ColIdle
    /\ CellIdle
    /\ HdrIdle
    /\ PipeIdle

SelIdle ==
    UNCHANGED <<cellVars, hdrVars, pipeVars, wiz, backing, hm, mn, colVars>>

\* Select Column n (or 'done')
AnswerSelect ==
    /\ sel.ret = "running" /\ sel.at = "select"
    /\ \E val \in SelectAnswers :
        sel' =
          IF val = BACK_SIGNAL
          THEN IF sel.selected # <<>> THEN [sel EXCEPT !.at = "confirm"]
               ELSE [sel EXCEPT !.ret = "BACK_SIGNAL"]
          ELSE IF Lower(val) = <<"u", "n", "d", "o">>
          THEN [sel EXCEPT !.selected =
                    IF @ # <<>> THEN SubSeq(@, 1, Len(@) - 1) ELSE @]
          ELSE IF Lower(val) = <<"d", "o", "n", "e">> \/ val = <<>>
          THEN IF Len(sel.selected) < 2 THEN sel
               ELSE [sel EXCEPT !.stored = sel.selected, !.ret = "True"]
          ELSE IF Lower(val) = <<"a", "l", "l">>
          THEN [sel EXCEPT !.selected = add_range(@, 1, Len(StepColumns))]
          ELSE IF IsRange(val)
          THEN [sel EXCEPT !.selected =
                    add_range(@, RangeOf(val)[1] + 1, RangeOf(val)[2] + 1)]
          ELSE IF col_found(val) # 0
          THEN [sel EXCEPT !.selected = add_col(@, col_found(val))]
          ELSE sel
    /\ SelIdle

\* Confirm go back? (y/n, default: y)
AnswerConfirm ==
    /\ sel.ret = "running" /\ sel.at = "confirm"
    /\ \E conf \in ConfirmAnswers :
        sel' = IF Lower(conf) = <<"n">> THEN [sel EXCEPT !.at = "select"]
               ELSE [sel EXCEPT !.ret = "BACK_SIGNAL"]
    /\ SelIdle

NextSelect ==
    \/ AnswerSelect
    \/ AnswerConfirm

SpecSelect == InitSelect /\ [][NextSelect]_vars

\* C26: the selection never holds a column twice or a column that fails
\* the numeric check; True is returned, with selected_columns stored, only
\* with at least 2 columns selected; until then, and when BACK_SIGNAL is
\* returned, selected_columns is not written.
C26_SelectionInvariant ==
    /\ \A k \in 1..Len(sel.selected) :
          /\ StepNumeric[sel.selected[k]]
          /\ \A l \in 1..Len(sel.selected) :
                sel.selected[l] = sel.selected[k] => l = k
    /\ sel.ret = "True" =>
          (Len(sel.selected) >= 2 /\ sel.stored = sel.selected)
    /\ sel.ret # "True" => sel.stored = sel.stored0

\* True returned with three columns over a config that held a selection
C26_Witness ==
    /\ sel.ret = "True"
    /\ Len(sel.selected) = 3
    /\ sel.stored0 # <<Absent>>
    /\ sel.stored # sel.stored0

=============================================================================
